---- MODULE Spec2Model ----
(***************************************************************************)
(* A model of the pi-personal-crm data layer (src/src/types.ts): the       *)
(* contact and company tables, the staged contact search, duplicate        *)
(* detection and the CSV import.                                           *)
(*                                                                         *)
(* Text is modelled as a sequence of characters; a character is a          *)
(* one-character string, except the two letters outside ASCII that the     *)
(* model uses, "AE" (U+00C6) and "ae" (U+00E6).  SQL NULL and the          *)
(* JavaScript undefined of a missing field are both the value NULL.        *)
(***************************************************************************)
EXTENDS Integers, Sequences, FiniteSets, TLC

VARIABLES contacts, companies, contactSeq, companySeq, out,
          interactions, reminders, relationships, groups, members, seqs, now,
          version, runs,
          stmts, interactionTypes, eventHandlers, handled,
          standaloneServer, webServerMounted, requests

vars == <<contacts, companies, contactSeq, companySeq, out,
          interactions, reminders, relationships, groups, members, seqs, now,
          version, runs,
          stmts, interactionTypes, eventHandlers, handled,
          standaloneServer, webServerMounted, requests>>

\* The prepared statements, the registry, the web servers and the requests
\* they are handling.
services == <<stmts, interactionTypes, eventHandlers,
              standaloneServer, webServerMounted, requests>>

host == <<services, handled>>

\* The tables of the rows that hang on contacts, the clock and the migrations.
links == <<interactions, reminders, relationships, groups, members, seqs, now,
           version, runs>>

\* All that an operation on contacts and companies alone leaves as it is.
rest == <<links, host>>

NULL == <<"NULL">>

----------------------------------------------------------------------------
(* Characters.                                                             *)

\* The characters of the model in code-point order (the order of SQLite's
\* BINARY collation, which ORDER BY uses).
CodeOrder ==
  <<"\t", "\n", "\r", " ", "\"", "%", ",", "-",
    "0", "1", "2", "3", "4", "5", "6", "7", "8", "9", "@",
    "A", "B", "C", "D", "E", "F", "G", "H", "I", "J", "K", "L", "M",
    "N", "O", "P", "Q", "R", "S", "T", "U", "V", "W", "X", "Y", "Z", "_",
    "a", "b", "c", "d", "e", "f", "g", "h", "i", "j", "k", "l", "m",
    "n", "o", "p", "q", "r", "s", "t", "u", "v", "w", "x", "y", "z",
    "AE", "ae">>

Chars == {CodeOrder[i] : i \in 1..Len(CodeOrder)}

Ord == [c \in Chars |-> CHOOSE i \in 1..Len(CodeOrder) : CodeOrder[i] = c]

\* ASCII upper-case letters are at 20..45 of CodeOrder, their lower-case forms
\* 27 places later.
AsciiLowerChar == [c \in Chars |->
  IF Ord[c] >= 20 /\ Ord[c] <= 45 THEN CodeOrder[Ord[c] + 27] ELSE c]

\* SQLite's LOWER() and LIKE fold the case of ASCII letters only.
SqlLower(s) == [i \in 1..Len(s) |-> AsciiLowerChar[s[i]]]

\* String.prototype.toLowerCase folds every letter.
JsLowerChar == [c \in Chars |-> IF c = "AE" THEN "ae" ELSE AsciiLowerChar[c]]

toLowerCase(s) == [i \in 1..Len(s) |-> JsLowerChar[s[i]]]

\* What /\s/ and String.prototype.trim treat as white space.
IsSpace(c) == c \in {" ", "\t", "\n", "\r"}

----------------------------------------------------------------------------
(* String functions of the JavaScript runtime.                             *)

RECURSIVE trimStart(_)
trimStart(s) ==
  IF s # <<>> /\ IsSpace(Head(s)) THEN trimStart(Tail(s)) ELSE s

RECURSIVE trimEnd(_)
trimEnd(s) ==
  IF s # <<>> /\ IsSpace(s[Len(s)]) THEN trimEnd(SubSeq(s, 1, Len(s) - 1)) ELSE s

trim(s) == trimEnd(trimStart(s))

\* s.split(/\s+/): the pieces between maximal runs of white space, the empty
\* pieces at either end included.
RECURSIVE splitSpaceFrom(_, _, _, _)
splitSpaceFrom(s, i, piece, inRun) ==
  IF i > Len(s) THEN <<piece>>
  ELSE IF IsSpace(s[i])
       THEN IF inRun THEN splitSpaceFrom(s, i + 1, piece, TRUE)
            ELSE <<piece>> \o splitSpaceFrom(s, i + 1, <<>>, TRUE)
       ELSE splitSpaceFrom(s, i + 1, Append(piece, s[i]), FALSE)

splitSpace(s) == splitSpaceFrom(s, 1, <<>>, FALSE)

\* s.split(","): the pieces between commas.
RECURSIVE splitCommaFrom(_, _, _)
splitCommaFrom(s, i, piece) ==
  IF i > Len(s) THEN <<piece>>
  ELSE IF s[i] = ","
       THEN <<piece>> \o splitCommaFrom(s, i + 1, <<>>)
       ELSE splitCommaFrom(s, i + 1, Append(piece, s[i]))

splitComma(s) == splitCommaFrom(s, 1, <<>>)

\* parts.join(sep)
RECURSIVE join(_, _)
join(parts, sep) ==
  IF parts = <<>> THEN <<>>
  ELSE IF Len(parts) = 1 THEN parts[1]
  ELSE parts[1] \o sep \o join(Tail(parts), sep)

includes(s, c) == \E i \in 1..Len(s) : s[i] = c

\* array.slice(0, n)
sliceTo(xs, n) == SubSeq(xs, 1, IF n < Len(xs) THEN n ELSE Len(xs))

Min2(a, b) == IF a < b THEN a ELSE b

Max2(a, b) == IF a > b THEN a ELSE b

RECURSIVE MinOf(_)
MinOf(xs) == IF Len(xs) = 1 THEN xs[1] ELSE Min2(xs[1], MinOf(Tail(xs)))

----------------------------------------------------------------------------
(* SQLite text operators.                                                  *)

\* s LIKE p: % matches any run of characters, _ any one character, every other
\* character itself, ASCII letters without regard to case.  A NULL operand
\* makes the comparison NULL, which a WHERE clause treats as false.
RECURSIVE likeMatch(_, _)
likeMatch(p, s) ==
  IF p = <<>> THEN s = <<>>
  ELSE IF Head(p) = "%"
       THEN likeMatch(Tail(p), s) \/ (s # <<>> /\ likeMatch(p, Tail(s)))
       ELSE /\ s # <<>>
            /\ Head(p) = "_" \/ AsciiLowerChar[Head(p)] = AsciiLowerChar[Head(s)]
            /\ likeMatch(Tail(p), Tail(s))

Like(s, p) == s # NULL /\ likeMatch(p, s)

\* COALESCE(x, '') and the x ?? "" of the JavaScript side.
Coalesce(s) == IF s = NULL THEN <<>> ELSE s

\* '%' || text || '%'
Wild(text) == <<"%">> \o text \o <<"%">>

\* a < b under the BINARY collation; NULL sorts before every text.
RECURSIVE TextLess(_, _)
TextLess(a, b) ==
  IF b = <<>> THEN FALSE
  ELSE IF a = <<>> THEN TRUE
  ELSE IF Head(a) = Head(b) THEN TextLess(Tail(a), Tail(b))
  ELSE Ord[Head(a)] < Ord[Head(b)]

SqlLess(a, b) ==
  IF b = NULL THEN FALSE
  ELSE IF a = NULL THEN TRUE
  ELSE TextLess(a, b)

----------------------------------------------------------------------------
(* Levenshtein distance, as computed by levenshtein(): two rolling rows    *)
(* over the shorter string.  Row position i of the code is position i + 1  *)
(* of the sequence.                                                        *)

\* The inner loop without the insertion term curr[i - 1] + 1.
RECURSIVE levFillNoInsertion(_, _, _, _)
levFillNoInsertion(a, bj, prev, curr) ==
  LET i == Len(curr)
  IN IF i > Len(a) THEN curr
     ELSE LET cost == IF a[i] = bj THEN 0 ELSE 1
              cell == Min2(prev[i + 1] + 1, prev[i] + cost)
          IN levFillNoInsertion(a, bj, prev, Append(curr, cell))

\* The inner loop: curr holds positions 0..i-1 and is extended by position i.
RECURSIVE levFill(_, _, _, _)
levFill(a, bj, prev, curr) ==
  LET i == Len(curr)
  IN IF i > Len(a) THEN curr
     ELSE LET cost == IF a[i] = bj THEN 0 ELSE 1
              cell == Min2(Min2(prev[i + 1] + 1, curr[i] + 1), prev[i] + cost)
          IN levFill(a, bj, prev, Append(curr, cell))

\* The outer loop over b; the swap makes the finished row the next prev.  A
\* row has a.length + 1 positions; reading the length of prev completes the
\* row before the next one is begun.
RECURSIVE levRows(_, _, _, _)
levRows(a, b, prev, j) ==
  IF j > Len(b) \/ Len(prev) # Len(a) + 1 THEN prev
  ELSE levRows(a, b, levFill(a, b[j], prev, <<j>>), j + 1)

levenshtein(a0, b0) ==
  IF a0 = b0 THEN 0
  ELSE IF Len(a0) = 0 THEN Len(b0)
  ELSE IF Len(b0) = 0 THEN Len(a0)
  ELSE LET a == IF Len(a0) > Len(b0) THEN b0 ELSE a0
           b == IF Len(a0) > Len(b0) THEN a0 ELSE b0
       IN levRows(a, b, [i \in 1..(Len(a) + 1) |-> i - 1], 1)[Len(a) + 1]

----------------------------------------------------------------------------
(* The tables.  contacts and companies hold the rows of crm_contacts and   *)
(* crm_companies in rowid order; contactSeq and companySeq are the last    *)
(* ids AUTOINCREMENT handed out.  A NULL company_id is NoId.               *)

NoId == 0

ContactIds == {contacts[i].id : i \in 1..Len(contacts)}

CompanyIds == {companies[i].id : i \in 1..Len(companies)}

SeqToSet(xs) == {xs[i] : i \in 1..Len(xs)}

\* co.name of the LEFT JOIN crm_companies co ON c.company_id = co.id
company_name(c) ==
  IF c.company_id \in CompanyIds
  THEN companies[CHOOSE i \in 1..Len(companies) : companies[i].id = c.company_id].name
  ELSE NULL

\* ORDER BY c.first_name, c.last_name: rows with equal keys stay in rowid order.
NameBefore(c, d) ==
  \/ SqlLess(c.first_name, d.first_name)
  \/ c.first_name = d.first_name /\ SqlLess(c.last_name, d.last_name)

RECURSIVE insertByName(_, _)
insertByName(row, sorted) ==
  IF sorted = <<>> THEN <<row>>
  ELSE IF NameBefore(row, Head(sorted)) THEN <<row>> \o sorted
  ELSE <<Head(sorted)>> \o insertByName(row, Tail(sorted))

RECURSIVE OrderByName(_)
OrderByName(rows) ==
  IF rows = <<>> THEN <<>>
  ELSE insertByName(rows[Len(rows)], OrderByName(SubSeq(rows, 1, Len(rows) - 1)))

\* SELECT ... FROM crm_contacts c WHERE <where> : the rows in rowid order.
RECURSIVE selectIdx(_, _)
selectIdx(keep, i) ==
  IF i > Len(contacts) THEN <<>>
  ELSE IF i \in keep THEN <<contacts[i]>> \o selectIdx(keep, i + 1)
  ELSE selectIdx(keep, i + 1)

\* ... ORDER BY c.first_name, c.last_name LIMIT ?
SelectContacts(keep, limit) == sliceTo(OrderByName(selectIdx(keep, 1)), limit)

\* stmts.getContacts
stmtGetContacts(limit) == SelectContacts(1..Len(contacts), limit)

----------------------------------------------------------------------------
(* Smart search.                                                           *)

\* pieces.filter(t => t.length > 0)
RECURSIVE nonEmpty(_)
nonEmpty(pieces) ==
  IF pieces = <<>> THEN <<>>
  ELSE IF Head(pieces) # <<>> THEN <<Head(pieces)>> \o nonEmpty(Tail(pieces))
  ELSE nonEmpty(Tail(pieces))

\* pieces.map(s => s.trim())
trimAll(pieces) == [i \in 1..Len(pieces) |-> trim(pieces[i])]

\* Mutant: the term conditions joined with OR instead of AND.
multiTermMatchesAny(c, terms) ==
  \E k \in 1..Len(terms) :
    \/ Like(SqlLower(c.first_name), SqlLower(Wild(terms[k])))
    \/ Like(SqlLower(Coalesce(c.last_name)), SqlLower(Wild(terms[k])))

\* Step 1: every term LIKE-matches first_name or last_name.
multiTermMatches(c, terms) ==
  \A k \in 1..Len(terms) :
    \/ Like(SqlLower(c.first_name), SqlLower(Wild(terms[k])))
    \/ Like(SqlLower(Coalesce(c.last_name)), SqlLower(Wild(terms[k])))

multiTermSearch(terms, limit) ==
  SelectContacts({i \in 1..Len(contacts) : multiTermMatches(contacts[i], terms)}, limit)

\* Step 2: "Last, First".
commaMatches(c, lastName, firstName) ==
  /\ Like(SqlLower(Coalesce(c.last_name)), SqlLower(Wild(lastName)))
  /\ Like(SqlLower(c.first_name), SqlLower(Wild(firstName)))

commaSearch(lastName, firstName, limit) ==
  SelectContacts({i \in 1..Len(contacts) :
                    commaMatches(contacts[i], lastName, firstName)}, limit)

\* const [lastName, ...firstParts] = trimmed.split(",").map(s => s.trim())
commaLastName(trimmed) == trimAll(splitComma(trimmed))[1]

commaFirstName(trimmed) == trim(join(Tail(trimAll(splitComma(trimmed))), <<" ">>))

\* Step 3: stmts.searchContacts, one pattern over six columns.
likeMatches(c, pattern) ==
  \/ Like(c.first_name, pattern)
  \/ Like(c.last_name, pattern)
  \/ Like(c.nickname, pattern)
  \/ Like(c.email, pattern)
  \/ Like(c.phone, pattern)
  \/ Like(c.tags, pattern)

stmtSearchContacts(pattern, limit) ==
  SelectContacts({i \in 1..Len(contacts) : likeMatches(contacts[i], pattern)}, limit)

\* Step 4: the distances of one term, their minimum and the threshold.
wordDistances(t, words) == [i \in 1..Len(words) |-> levenshtein(t, words[i])]

\* Mutant: the last name left out of the distances.
bestDistanceNoLast(c, term) ==
  LET t     == toLowerCase(term)
      first == toLowerCase(Coalesce(c.first_name))
      nick  == toLowerCase(Coalesce(c.nickname))
  IN MinOf(<<levenshtein(t, first), levenshtein(t, nick)>>
           \o wordDistances(t, splitSpace(first)))

\* The best distance of one term across the name fields and the words of the
\* first name.
bestDistance(c, term) ==
  LET t     == toLowerCase(term)
      first == toLowerCase(Coalesce(c.first_name))
      last  == toLowerCase(Coalesce(c.last_name))
      nick  == toLowerCase(Coalesce(c.nickname))
  IN MinOf(<<levenshtein(t, first), levenshtein(t, last), levenshtein(t, nick)>>
           \o wordDistances(t, splitSpace(first)))

\* Mutant: the floor of 2 left out of the threshold.
thresholdNoFloor(term) == Len(toLowerCase(term)) \div 3

threshold(term) == Max2(2, Len(toLowerCase(term)) \div 3)

\* Mutant: a term out of reach is skipped instead of rejecting the contact.
RECURSIVE fuzzyScoreSkip(_, _, _)
fuzzyScoreSkip(c, terms, totalScore) ==
  IF terms = <<>> THEN totalScore
  ELSE LET best == bestDistance(c, Head(terms))
       IN IF best > threshold(Head(terms))
          THEN fuzzyScoreSkip(c, Tail(terms), totalScore)
          ELSE fuzzyScoreSkip(c, Tail(terms), totalScore + best)

\* The loop over the terms: the total score, or -1 once a term is out of reach.
RECURSIVE fuzzyScore(_, _, _)
fuzzyScore(c, terms, totalScore) ==
  IF terms = <<>> THEN totalScore
  ELSE LET best == bestDistance(c, Head(terms))
       IN IF best > threshold(Head(terms)) THEN -1
          ELSE fuzzyScore(c, Tail(terms), totalScore + best)

\* The loop over all contacts (ORDER BY first_name, last_name), pushing the matches.
RECURSIVE scoreAll(_, _)
scoreAll(all, terms) ==
  IF all = <<>> THEN <<>>
  ELSE LET score == fuzzyScore(Head(all), terms, 0)
       IN (IF score >= 0 THEN <<[contact |-> Head(all), score |-> score]>> ELSE <<>>)
          \o scoreAll(Tail(all), terms)

\* scored.sort((a, b) => a.score - b.score): Array.prototype.sort is stable.
RECURSIVE insertByScore(_, _)
insertByScore(e, sorted) ==
  IF sorted = <<>> THEN <<e>>
  ELSE IF e.score < Head(sorted).score THEN <<e>> \o sorted
  ELSE <<Head(sorted)>> \o insertByScore(e, Tail(sorted))

RECURSIVE sortByScore(_)
sortByScore(scored) ==
  IF scored = <<>> THEN <<>>
  ELSE insertByScore(scored[Len(scored)],
                     sortByScore(SubSeq(scored, 1, Len(scored) - 1)))

searchContactsFuzzy(terms, limit) ==
  LET all    == OrderByName(contacts)
      sorted == sliceTo(sortByScore(scoreAll(all, terms)), limit)
  IN [i \in 1..Len(sorted) |-> sorted[i].contact]

\* Mutant: the early return of step 3 is missing.
searchContactsSmartNoLikeReturn(query, limit) ==
  LET trimmed == trim(query)
      terms   == nonEmpty(splitSpace(trimmed))
      step1   == multiTermSearch(terms, limit)
      tryComma == /\ includes(trimmed, ",")
                  /\ commaLastName(trimmed) # <<>>
                  /\ commaFirstName(trimmed) # <<>>
      step2   == commaSearch(commaLastName(trimmed), commaFirstName(trimmed), limit)
      ran12   == IF Len(terms) > 1
                 THEN (IF tryComma THEN <<1, 2>> ELSE <<1>>)
                 ELSE <<>>
  IN IF trimmed = <<>> THEN [rows |-> <<>>, ran |-> <<>>]
     ELSE IF Len(terms) > 1 /\ step1 # <<>> THEN [rows |-> step1, ran |-> <<1>>]
     ELSE IF Len(terms) > 1 /\ tryComma /\ step2 # <<>>
          THEN [rows |-> step2, ran |-> <<1, 2>>]
     ELSE [rows |-> searchContactsFuzzy(terms, limit), ran |-> ran12 \o <<3, 4>>]

\* searchContactsSmart: rows is what it returns, ran the steps whose statement
\* it executed, in order.
searchContactsSmart(query, limit) ==
  LET trimmed == trim(query)
      terms   == nonEmpty(splitSpace(trimmed))
      step1   == multiTermSearch(terms, limit)
      tryComma == /\ includes(trimmed, ",")
                  /\ commaLastName(trimmed) # <<>>
                  /\ commaFirstName(trimmed) # <<>>
      step2   == commaSearch(commaLastName(trimmed), commaFirstName(trimmed), limit)
      step3   == stmtSearchContacts(Wild(trimmed), limit)
      ran12   == IF Len(terms) > 1
                 THEN (IF tryComma THEN <<1, 2>> ELSE <<1>>)
                 ELSE <<>>
  IN IF trimmed = <<>> THEN [rows |-> <<>>, ran |-> <<>>]
     ELSE IF Len(terms) > 1 /\ step1 # <<>> THEN [rows |-> step1, ran |-> <<1>>]
     ELSE IF Len(terms) > 1 /\ tryComma /\ step2 # <<>>
          THEN [rows |-> step2, ran |-> <<1, 2>>]
     ELSE IF step3 # <<>> THEN [rows |-> step3, ran |-> ran12 \o <<3>>]
     ELSE [rows |-> searchContactsFuzzy(terms, limit), ran |-> ran12 \o <<3, 4>>]

\* crmApi.getContacts(search, limit): an empty search text is falsy.
getContacts(search, limit) ==
  IF search # NULL /\ search # <<>>
  THEN searchContactsSmart(search, limit)
  ELSE [rows |-> stmtGetContacts(limit), ran |-> <<>>]

\* crmApi.searchContacts(query, limit = 20)
DefaultSearchLimit == 20

searchContacts(query, limit) == getContacts(query, limit)

----------------------------------------------------------------------------
(* Bounds and inputs.                                                      *)

\* The number of contacts ever inserted.
MaxContacts == 2

t_John    == <<"J", "o", "h", "n">>
t_john    == <<"j", "o", "h", "n">>
t_JOHN    == <<"J", "O", "H", "N">>
t_Jon     == <<"J", "o", "n">>
t_Doe     == <<"D", "o", "e">>
t_DOE     == <<"D", "O", "E">>
t_doe     == <<"d", "o", "e">>
t_doe_jr  == <<"d", "o", "e", ",", " ", "j", "r">>
t_mary_ann == <<"m", "a", "r", "y", " ", "a", "n", "n">>
t_mimi    == <<"m", "i", "m", "i">>
t_jonas   == <<"j", "o", "n", "a", "s">>
t_smith   == <<"s", "m", "i", "t", "h">>
t_jonny   == <<"j", "o", "n", "n", "y">>
t_mailJ   == <<"j", "@", "d">>
t_mailJup == <<"J", "@", "d">>

\* CreateContactData with the fields the inputs leave out undefined.
Person(first, last, nick, email) ==
  [first_name |-> first, last_name |-> last, nickname |-> nick, email |-> email,
   phone |-> NULL, company_id |-> NoId, birthday |-> NULL, anniversary |-> NULL,
   notes |-> NULL, avatar_url |-> NULL, tags |-> NULL, custom_fields |-> NULL]

ContactInputs ==
  { Person(t_John, t_Doe, NULL, t_mailJ),
    Person(t_john, t_doe_jr, NULL, NULL),
    Person(t_Jon, NULL, NULL, t_mailJup),
    Person(t_mary_ann, t_Doe, t_mimi, NULL),
    Person(t_jonas, t_smith, t_jonny, NULL) }

\* Search texts that are not built from a stored contact.
QueryInputs ==
  { <<>>, <<" ", "\t">>,
    <<"J", "o", "n">>,
    <<"J", "a", "h", "n">>,
    <<"D", "o", "o">>,
    <<"j", "o", " ", "s", "m">>,
    <<"s", "m", "i", ",", " ", "j", "o", "n">>,
    <<"j", "_", "h", "n">>,
    <<"q", "q", "q", "q">>,
    <<"D", "o", "o", ",", " ", "J", "a", "h", "n">> }

LimitInputs == {1, DefaultSearchLimit}

\* The three ways of writing a stored contact's name.
FirstLast(c) == c.first_name \o <<" ">> \o c.last_name

LastFirst(c) == c.last_name \o <<" ">> \o c.first_name

LastCommaFirst(c) == c.last_name \o <<",", " ">> \o c.first_name

NameQueries ==
  UNION {{FirstLast(contacts[i]), LastFirst(contacts[i]), LastCommaFirst(contacts[i])} :
           i \in {j \in 1..Len(contacts) : contacts[j].last_name # NULL}}

----------------------------------------------------------------------------
(* The operations.                                                         *)

\* export type CrmEvent
CrmEvents ==
  {"contact.created", "contact.updated", "contact.deleted", "interaction.logged",
   "reminder.triggered", "entity.created", "entity.updated", "entity.deleted"}

\* const coreInteractionTypes (their names)
coreInteractionTypes == <<"call", "meeting", "email", "note", "gift", "message">>

\* crmRegistry.registerInteractionType for each core type in turn: a name that
\* is registered throws and ends the loop.
RECURSIVE registerCoreTypes(_, _)
registerCoreTypes(types, i) ==
  IF i > Len(coreInteractionTypes) THEN [interactionTypes |-> types, threw |-> FALSE]
  ELSE IF \E k \in 1..Len(types) : types[k] = coreInteractionTypes[i]
  THEN [interactionTypes |-> types, threw |-> TRUE]
  ELSE registerCoreTypes(Append(types, coreInteractionTypes[i]), i + 1)

\* new CrmRegistry(): nothing is registered.
InitRegistry ==
  /\ interactionTypes = <<>>
  /\ eventHandlers = [e \in CrmEvents |-> <<>>]
  /\ handled = [event |-> "none", invoked |-> <<>>, errors |-> <<>>, propagated |-> FALSE]

\* No web server is started or mounted and no request is in flight.
InitWeb ==
  /\ standaloneServer = 0
  /\ webServerMounted = FALSE
  /\ requests = <<>>

\* const migrations: string[]: the core tables and the group membership table.
migrations == <<"core tables", "group membership join table">>

\* A version that is written before its script has run.
persistVersionAhead(i) == i + 2

\* INSERT OR REPLACE INTO crm_module_versions ... run("crm", i + 1)
persistVersion(i) == i + 1

\* for (let i = currentVersion; i < migrations.length; i++): db.exec of a
\* script in fails throws and ends the call; of any other script it completes
\* and the version is persisted.
RECURSIVE migrationLoop(_, _, _, _)
migrationLoop(i, ver, executed, fails) ==
  IF i >= Len(migrations)
  THEN [version |-> ver, executed |-> executed, threw |-> FALSE]
  ELSE IF i \in fails
  THEN [version |-> ver, executed |-> Append(executed, [script |-> i, ok |-> FALSE]),
        threw |-> TRUE]
  ELSE migrationLoop(i + 1, persistVersion(i),
                     Append(executed, [script |-> i, ok |-> TRUE]), fails)

\* The other tables are empty after the migrations, which ran once and
\* completed.
InitRest ==
  /\ interactions = <<>>
  /\ reminders = <<>>
  /\ relationships = <<>>
  /\ groups = <<>>
  /\ members = <<>>
  /\ seqs = [interactions |-> 0, reminders |-> 0, relationships |-> 0, groups |-> 0]
  /\ now = 0
  /\ version = migrationLoop(0, 0, <<>>, {}).version
  /\ runs = <<[currentVersion |-> 0, executed |-> migrationLoop(0, 0, <<>>, {}).executed]>>
  /\ stmts = "prepared"
  /\ interactionTypes = registerCoreTypes(<<>>, 1).interactionTypes
  /\ eventHandlers = [e \in CrmEvents |-> <<>>]
  /\ handled = [event |-> "none", invoked |-> <<>>, errors |-> <<>>, propagated |-> FALSE]
  /\ InitWeb

Init ==
  /\ contacts = <<>>
  /\ companies = <<>>
  /\ contactSeq = 0
  /\ companySeq = 0
  /\ InitRest
  /\ out = [op |-> "initDb"]

\* crmApi.createContact: a field the data leaves out is stored as NULL.
insertContact(tbl, seq, data) ==
  Append(tbl,
    [id |-> seq + 1,
     first_name |-> data.first_name, last_name |-> data.last_name,
     nickname |-> data.nickname, email |-> data.email, phone |-> data.phone,
     company_id |-> data.company_id, birthday |-> data.birthday,
     anniversary |-> data.anniversary, notes |-> data.notes,
     avatar_url |-> data.avatar_url, tags |-> data.tags,
     custom_fields |-> data.custom_fields,
     created_at |-> now, updated_at |-> now])

\* What a handler does when it is called: return, return a promise that
\* resolves, throw, or return a promise that rejects.
HandlerKinds == {"returns", "resolves", "throws", "rejects"}

\* handlers.map((handler) => Promise.resolve(handler(data)).catch(...)): the
\* handlers are called in turn; a rejection is caught and logged; a handler
\* that throws ends the map.
RECURSIVE mapHandlers(_, _, _)
mapHandlers(handlers, i, done) ==
  IF i > Len(handlers) THEN done
  ELSE IF handlers[i] = "throws"
  THEN [done EXCEPT !.invoked = Append(@, i), !.threw = TRUE]
  ELSE mapHandlers(handlers, i + 1,
         [done EXCEPT !.invoked = Append(@, i),
                      !.errors = IF handlers[i] = "rejects"
                                 THEN Append(@, "Event handler failed") ELSE @])

\* CrmRegistry.emit(event, data): the handlers called and the errors logged;
\* the promise rejects when the map threw.
emit(event) ==
  mapHandlers(eventHandlers[event], 1, [invoked |-> <<>>, errors |-> <<>>, threw |-> FALSE])

\* An emit whose rejection reaches the caller of the mutation.
emittedUncaught(event) ==
  IF eventHandlers[event] = <<>> THEN handled
  ELSE [event |-> event, invoked |-> emit(event).invoked, errors |-> emit(event).errors,
        propagated |-> emit(event).threw]

\* crmRegistry.emit(event, data).catch((err) => console.error(...)): what the
\* handlers of the event did, when there are any.
emitted(event) ==
  IF eventHandlers[event] = <<>> THEN handled
  ELSE [event |-> event, invoked |-> emit(event).invoked,
        errors |-> IF emit(event).threw
                   THEN Append(emit(event).errors, "Failed to emit event")
                   ELSE emit(event).errors,
        propagated |-> FALSE]

\* With foreign_keys = ON the insert of a company_id that is no company's id
\* throws and inserts nothing.
CreateContactOf(inputs, max) ==
  \E data \in inputs :
    /\ contactSeq < max
    /\ IF data.company_id = NoId \/ data.company_id \in CompanyIds
       THEN /\ contacts' = insertContact(contacts, contactSeq, data)
            /\ contactSeq' = contactSeq + 1
            /\ out' = [op |-> "createContact", id |-> contactSeq + 1]
            /\ handled' = emitted("contact.created")
       ELSE /\ out' = [op |-> "createContact", error |-> "FOREIGN KEY constraint failed"]
            /\ UNCHANGED <<contacts, contactSeq, handled>>
    /\ UNCHANGED <<companies, companySeq, links, services>>

\* crmApi.searchContacts(query, limit)
SearchContacts ==
  \E query \in QueryInputs \cup NameQueries, limit \in LimitInputs :
    LET r == searchContacts(query, limit)
    IN /\ out' = [op |-> "searchContacts", query |-> query, limit |-> limit,
                  rows |-> r.rows, ran |-> r.ran]
       /\ UNCHANGED <<contacts, companies, contactSeq, companySeq, rest>>

CreateContact == CreateContactOf(ContactInputs, MaxContacts)

Next ==
  \/ CreateContact
  \/ SearchContacts

Spec == Init /\ [][Next]_vars

----------------------------------------------------------------------------
(* Properties of the search.                                               *)

Searched == out.op = "searchContacts"

InRows(c, rows) == \E i \in 1..Len(rows) : rows[i].id = c.id

NonBlank(s) == s # NULL /\ trim(s) # <<>>

QueryTerms == nonEmpty(splitSpace(trim(out.query)))

\* Every term LIKE-matches the first or the last name of c.
AllTermsInName(c, terms) ==
  \A k \in 1..Len(terms) :
    \/ Like(SqlLower(c.first_name), SqlLower(Wild(terms[k])))
    \/ Like(SqlLower(Coalesce(c.last_name)), SqlLower(Wild(terms[k])))

\* The last name LIKE-matches lastPart and the first name firstPart.
PartsInName(c, lastPart, firstPart) ==
  /\ Like(SqlLower(Coalesce(c.last_name)), SqlLower(Wild(lastPart)))
  /\ Like(SqlLower(c.first_name), SqlLower(Wild(firstPart)))

CountContacts(P(_)) == Cardinality({i \in 1..Len(contacts) : P(contacts[i])})

\* C1 as claimed: for every stored contact C with non-empty first name F and
\* last name L, searchContacts of "F L", of "L F" and of "L, F" (default limit)
\* each include C.
C1_AnyNameFormFindsContact ==
  Searched /\ out.limit = DefaultSearchLimit =>
    \A i \in 1..Len(contacts) :
      LET c == contacts[i]
      IN (/\ c.last_name # NULL /\ c.first_name # <<>> /\ c.last_name # <<>>
          /\ out.query \in {FirstLast(c), LastFirst(c), LastCommaFirst(c)})
         => InRows(c, out.rows)

\* C1 as amended: for every stored contact C whose first name F and last name L
\* are not blank, searchContacts("F L", limit) and searchContacts("L F", limit)
\* include C when at most limit contacts satisfy the multi-term match, and
\* searchContacts("L, F", limit) includes C when F and L hold no comma, no
\* contact satisfies the multi-term match of that query and at most limit
\* contacts satisfy the comma match.
C1_NameFormFindsContact ==
  Searched =>
    \A i \in 1..Len(contacts) :
      LET c == contacts[i]
          MultiHit(d) == AllTermsInName(d, QueryTerms)
          CommaHit(d) == PartsInName(d, trim(c.last_name), trim(c.first_name))
      IN NonBlank(c.first_name) /\ NonBlank(c.last_name) =>
           /\ (/\ out.query \in {FirstLast(c), LastFirst(c)}
               /\ CountContacts(MultiHit) <= out.limit)
              => InRows(c, out.rows)
           /\ (/\ out.query = LastCommaFirst(c)
               /\ ~includes(c.first_name, ",") /\ ~includes(c.last_name, ",")
               /\ CountContacts(MultiHit) = 0
               /\ CountContacts(CommaHit) <= out.limit)
              => InRows(c, out.rows)

\* A "Last, First" search answered by the comma match finds its contact.
C1_Witness ==
  /\ Searched
  /\ out.ran = <<1, 2>>
  /\ \E i \in 1..Len(contacts) :
       /\ contacts[i].last_name # NULL
       /\ out.query = LastCommaFirst(contacts[i])
       /\ InRows(contacts[i], out.rows)

\* C2 as claimed: searchContacts returns an empty sequence for every query that
\* is empty or only white space, whatever contacts are stored.
C2_BlankQueryReturnsNothing ==
  Searched /\ trim(out.query) = <<>> => out.rows = <<>>

\* C3: the stages run strictly in order, each only when every stage run before
\* it returned nothing (the comma match only for a query with a comma), and
\* the answer is the rows of the last stage run alone: the first stage that
\* yields a contact, else the fuzzy stage.
C3_StagesInOrder ==
  Searched /\ out.query # <<>> /\ trim(out.query) # <<>> =>
    LET trimmed == trim(out.query)
        ran     == out.ran
        Rows(k) ==
          CASE k = 1 -> multiTermSearch(QueryTerms, out.limit)
            [] k = 2 -> commaSearch(commaLastName(trimmed), commaFirstName(trimmed),
                                    out.limit)
            [] k = 3 -> stmtSearchContacts(Wild(trimmed), out.limit)
            [] k = 4 -> searchContactsFuzzy(QueryTerms, out.limit)
    IN /\ ran # <<>>
       /\ \A i \in 1..(Len(ran) - 1) : ran[i] < ran[i + 1] /\ Rows(ran[i]) = <<>>
       /\ out.rows = Rows(ran[Len(ran)])
       /\ ran[Len(ran)] # 4 => out.rows # <<>>
       /\ 2 \in SeqToSet(ran) => 1 \in SeqToSet(ran) /\ includes(out.query, ",")
       /\ 4 \in SeqToSet(ran) => 3 \in SeqToSet(ran) /\ Rows(3) = <<>>

\* All four stages ran and the fuzzy stage found a contact.
C3_Witness ==
  Searched /\ out.ran = <<1, 2, 3, 4>> /\ out.rows # <<>>

\* The fuzzy stage ran.
FuzzyRan == Searched /\ 4 \in SeqToSet(out.ran)

\* The least distance of a term from the names of c, lower-cased: first name,
\* last name, nickname (a missing one being empty) and each word of the first
\* name.
NameDistance(c, term) ==
  LET t     == toLowerCase(term)
      names == {toLowerCase(Coalesce(c.first_name)), toLowerCase(Coalesce(c.last_name)),
                toLowerCase(Coalesce(c.nickname))}
               \cup SeqToSet(splitSpace(toLowerCase(Coalesce(c.first_name))))
      dists == {levenshtein(t, n) : n \in names}
  IN CHOOSE d \in dists : \A e \in dists : d <= e

TermLimit(term) == IF Len(term) \div 3 > 2 THEN Len(term) \div 3 ELSE 2

WithinReach(c, terms) ==
  \A k \in 1..Len(terms) : NameDistance(c, terms[k]) <= TermLimit(terms[k])

RECURSIVE SumDistances(_, _)
SumDistances(c, terms) ==
  IF terms = <<>> THEN 0
  ELSE NameDistance(c, Head(terms)) + SumDistances(c, Tail(terms))

\* C4: when the fuzzy stage runs it returns exactly the contacts every term of
\* which is within max(2, floor(len/3)) of one of the contact's names, ordered
\* by ascending sum of the per-term minima and cut to the first limit.
C4_FuzzyStageResult ==
  FuzzyRan =>
    LET rows     == out.rows
        terms    == QueryTerms
        Reach(c) == WithinReach(c, terms)
    IN /\ \A i \in 1..Len(rows) : rows[i] \in SeqToSet(contacts) /\ Reach(rows[i])
       /\ \A i, j \in 1..Len(rows) : i < j =>
            /\ rows[i].id # rows[j].id
            /\ SumDistances(rows[i], terms) <= SumDistances(rows[j], terms)
       /\ Len(rows) = Min2(out.limit, CountContacts(Reach))
       /\ \A k \in 1..Len(contacts) :
            Reach(contacts[k]) /\ ~InRows(contacts[k], rows) =>
              \A i \in 1..Len(rows) :
                SumDistances(rows[i], terms) <= SumDistances(contacts[k], terms)

\* The fuzzy stage ranks a later-sorted contact first and leaves out the rest.
C4_Witness ==
  /\ FuzzyRan
  /\ Len(out.rows) = 2
  /\ NameBefore(out.rows[2], out.rows[1])
  /\ SumDistances(out.rows[1], QueryTerms) < SumDistances(out.rows[2], QueryTerms)

OneEditFromName(c, query) ==
  \/ levenshtein(query, c.first_name) = 1
  \/ c.last_name # NULL /\ levenshtein(query, c.last_name) = 1

\* The flat LIKE match of the six text columns.
FlatHit(c, text) ==
  \E f \in {c.first_name, c.last_name, c.nickname, c.email, c.phone, c.tags} :
    Like(f, Wild(text))

\* C5 as claimed: a query one single-character edit away from the first or last
\* name of a stored contact C returns C, whatever else is stored.
C5_TypoFindsContact ==
  Searched /\ out.limit = DefaultSearchLimit =>
    \A i \in 1..Len(contacts) :
      OneEditFromName(contacts[i], out.query) => InRows(contacts[i], out.rows)

\* C5 as amended: a query of one term (not empty, no white space) one edit away
\* from the first or last name of a stored contact C returns C, provided the
\* flat substring stage matches no stored contact and at most limit contacts
\* are within the fuzzy thresholds.
C5_TypoFindsContactWhenNothingMatches ==
  LET Flat(c)  == FlatHit(c, trim(out.query))
      Reach(c) == WithinReach(c, QueryTerms)
  IN (/\ Searched
      /\ out.query # <<>> /\ \A k \in 1..Len(out.query) : ~IsSpace(out.query[k])
      /\ CountContacts(Flat) = 0
      /\ CountContacts(Reach) <= out.limit)
     => \A i \in 1..Len(contacts) :
          OneEditFromName(contacts[i], out.query) => InRows(contacts[i], out.rows)

\* A typo of a last name is answered by the fuzzy stage with its contact.
C5_Witness ==
  /\ FuzzyRan
  /\ \E i \in 1..Len(contacts) :
       /\ contacts[i].last_name # NULL
       /\ levenshtein(out.query, contacts[i].last_name) = 1
       /\ InRows(contacts[i], out.rows)

\* The trimmed query occurs, letter case aside, in a text column of c.
RECURSIVE OccursIn(_, _)
OccursIn(text, field) ==
  /\ Len(text) <= Len(field)
  /\ \/ SqlLower(SubSeq(field, 1, Len(text))) = SqlLower(text)
     \/ OccursIn(text, Tail(field))

QueryOccurs(c) ==
  \E f \in {c.first_name, c.last_name, c.nickname, c.email, c.phone, c.tags} :
    f # NULL /\ OccursIn(trim(out.query), f)

AllTermsFar ==
  \A i \in 1..Len(contacts) : \A k \in 1..Len(QueryTerms) :
    NameDistance(contacts[i], QueryTerms[k]) > TermLimit(QueryTerms[k])

\* C6 as claimed: if the query is a substring of no stored contact field and
\* every query term is further than max(2, floor(len/3)) from every name of
\* every contact, searchContacts returns no contact.
C6_UnrelatedQueryReturnsNothing ==
  (/\ Searched /\ out.limit = DefaultSearchLimit
   /\ trim(out.query) # <<>>
   /\ CountContacts(QueryOccurs) = 0
   /\ AllTermsFar)
  => out.rows = <<>>

\* C6 as amended: if no stored contact satisfies the multi-term match, the
\* comma match or the flat LIKE match of the query, and every query term is
\* further than max(2, floor(len/3)) from every name of every contact (a
\* missing last name or nickname counting as the empty text), searchContacts
\* returns no contact.
C6_UnmatchedQueryReturnsNothing ==
  LET trimmed  == trim(out.query)
      Multi(c) == AllTermsInName(c, QueryTerms)
      Comma(c) == /\ includes(trimmed, ",")
                  /\ PartsInName(c, commaLastName(trimmed), commaFirstName(trimmed))
      Flat(c)  == FlatHit(c, trimmed)
  IN (/\ Searched
      /\ trimmed # <<>>
      /\ CountContacts(Multi) = 0
      /\ CountContacts(Comma) = 0
      /\ CountContacts(Flat) = 0
      /\ AllTermsFar)
     => out.rows = <<>>

\* A query far from every stored name went through to the fuzzy stage and
\* came back empty.
C6_Witness ==
  /\ FuzzyRan
  /\ contacts # <<>>
  /\ AllTermsFar
  /\ out.rows = <<>>

----------------------------------------------------------------------------
(* Duplicate detection.  The statements are given the rows of crm_contacts *)
(* they read, so that the import can run them between its own inserts.     *)

\* SELECT ... FROM crm_contacts c WHERE <where> over the rows tbl.
RECURSIVE rowsWhere(_, _, _)
rowsWhere(tbl, keep, i) ==
  IF i > Len(tbl) THEN <<>>
  ELSE IF i \in keep THEN <<tbl[i]>> \o rowsWhere(tbl, keep, i + 1)
  ELSE rowsWhere(tbl, keep, i + 1)

\* WHERE c.email = ? AND c.email IS NOT NULL AND c.email != ''
findDuplicatesByEmail(tbl, email) ==
  rowsWhere(tbl, {i \in 1..Len(tbl) : /\ tbl[i].email # NULL
                                      /\ tbl[i].email = email
                                      /\ tbl[i].email # <<>>}, 1)

\* WHERE LOWER(c.first_name) = LOWER(?) AND LOWER(COALESCE(c.last_name, '')) = LOWER(?)
findDuplicatesByName(tbl, first, last) ==
  rowsWhere(tbl, {i \in 1..Len(tbl) :
                    /\ SqlLower(tbl[i].first_name) = SqlLower(first)
                    /\ SqlLower(Coalesce(tbl[i].last_name)) = SqlLower(last)}, 1)

\* Map.prototype.set of the rows by c.id: a key already present keeps its place.
RECURSIVE setAll(_, _)
setAll(found, rows) ==
  IF rows = <<>> THEN found
  ELSE LET c    == Head(rows)
           have == {i \in 1..Len(found) : found[i].id = c.id}
       IN setAll(IF have = {} THEN Append(found, c)
                 ELSE [found EXCEPT ![CHOOSE i \in have : TRUE] = c],
                 Tail(rows))

\* findDuplicates with the rows pushed on an array instead of set in the Map.
findDuplicatesPushed(tbl, data) ==
  (IF data.email # NULL /\ data.email # <<>>
   THEN findDuplicatesByEmail(tbl, data.email) ELSE <<>>)
  \o findDuplicatesByName(tbl, data.first_name, Coalesce(data.last_name))

\* crmApi.findDuplicates: [...found.values()]
findDuplicates(tbl, data) ==
  LET byEmail == IF data.email # NULL /\ data.email # <<>>
                 THEN findDuplicatesByEmail(tbl, data.email) ELSE <<>>
      byName  == findDuplicatesByName(tbl, data.first_name, Coalesce(data.last_name))
  IN setAll(setAll(<<>>, byEmail), byName)

t_jon  == <<"j", "o", "n">>
t_AEse == <<"AE", "s", "e">>
t_aese == <<"ae", "s", "e">>

\* The stored contacts of the duplicate checks.
KnownContacts ==
  { Person(t_John, t_Doe, NULL, t_mailJ),
    Person(t_JOHN, t_DOE, NULL, t_mailJup),
    Person(t_Jon, NULL, NULL, t_mailJ),
    Person(t_jon, <<>>, NULL, <<>>),
    Person(t_Jon, t_AEse, NULL, NULL) }

\* The data findDuplicates is asked about.
Probes ==
  [email : {NULL, <<>>, t_mailJ, t_mailJup},
   first_name : {t_john, t_Jon},
   last_name : {NULL, <<>>, t_doe, t_aese}]

CreateKnownContact == CreateContactOf(KnownContacts, MaxContacts)

\* crmApi.findDuplicates(data)
FindDuplicates ==
  \E data \in Probes :
    /\ out' = [op |-> "findDuplicates", data |-> data,
               rows |-> findDuplicates(contacts, data)]
    /\ UNCHANGED <<contacts, companies, contactSeq, companySeq, rest>>

NextDuplicates ==
  \/ CreateKnownContact
  \/ FindDuplicates

DuplicateSpec == Init /\ [][NextDuplicates]_vars

----------------------------------------------------------------------------
(* Properties of the duplicate detection.                                  *)

\* c is a duplicate of data: the same email, or the same names letter case
\* aside.
IsDuplicate(c, data) ==
  \/ /\ data.email # NULL
     /\ data.email # <<>>
     /\ c.email = data.email
  \/ /\ SqlLower(c.first_name) = SqlLower(data.first_name)
     /\ SqlLower(Coalesce(c.last_name)) = SqlLower(Coalesce(data.last_name))

\* C7: findDuplicates returns exactly the stored contacts that have the email
\* asked about (when one is given and it is not empty) or the names asked
\* about with letter case aside and a missing last name read as empty; each
\* of them once; and the call leaves the tables as they were.
C7_DuplicatesAreEmailOrNameMatches ==
  [][out'.op = "findDuplicates" =>
       /\ contacts' = contacts
       /\ companies' = companies
       /\ SeqToSet(out'.rows) = {c \in SeqToSet(contacts) : IsDuplicate(c, out'.data)}
       /\ \A i, j \in 1..Len(out'.rows) :
            out'.rows[i].id = out'.rows[j].id => i = j]_vars

\* One contact matched by both probes and one matched by name alone, whose
\* letters differ in case from the names asked about.
C7_Witness ==
  /\ out.op = "findDuplicates"
  /\ Len(out.rows) = 2
  /\ \E i, j \in 1..Len(out.rows) :
       /\ out.rows[i].email = out.data.email
       /\ SqlLower(out.rows[i].first_name) = SqlLower(out.data.first_name)
       /\ out.rows[j].email # out.data.email
       /\ out.rows[j].first_name # out.data.first_name
       /\ out.rows[i] \in SeqToSet(contacts)
       /\ out.rows[j] \in SeqToSet(contacts)

----------------------------------------------------------------------------
(* Companies.                                                              *)

\* ORDER BY name: rows with equal names stay in rowid order.
RECURSIVE insertByCompanyName(_, _)
insertByCompanyName(row, sorted) ==
  IF sorted = <<>> THEN <<row>>
  ELSE IF TextLess(row.name, Head(sorted).name) THEN <<row>> \o sorted
  ELSE <<Head(sorted)>> \o insertByCompanyName(row, Tail(sorted))

RECURSIVE OrderByCompanyName(_)
OrderByCompanyName(rows) ==
  IF rows = <<>> THEN <<>>
  ELSE insertByCompanyName(rows[Len(rows)],
                           OrderByCompanyName(SubSeq(rows, 1, Len(rows) - 1)))

\* stmts.searchCompanies:
\* WHERE name LIKE ? OR industry LIKE ? OR website LIKE ? ORDER BY name LIMIT ?
stmtSearchCompanies(cos, pattern, limit) ==
  sliceTo(OrderByCompanyName(
            rowsWhere(cos, {i \in 1..Len(cos) : \/ Like(cos[i].name, pattern)
                                                \/ Like(cos[i].industry, pattern)
                                                \/ Like(cos[i].website, pattern)}, 1)),
          limit)

\* The LIMIT crmApi.getCompanies gives the search.
CompanySearchLimit == 100

\* crmApi.getCompanies(search): an empty search lists every company.
getCompanies(cos, search) ==
  IF search # NULL /\ search # <<>>
  THEN stmtSearchCompanies(cos, Wild(search), CompanySearchLimit)
  ELSE OrderByCompanyName(cos)

\* crmApi.createCompany: a field the data leaves out is stored as NULL.
insertCompany(cos, seq, data) ==
  Append(cos, [id |-> seq + 1, name |-> data.name, website |-> data.website,
               industry |-> data.industry, notes |-> data.notes,
               created_at |-> now, updated_at |-> now])

----------------------------------------------------------------------------
(* The CSV import.                                                         *)

\* parseCsvLines: i is the position of the next character, current the
\* fields of the row being read, field the field being read.
RECURSIVE parseCsvFrom(_, _, _, _, _, _)
parseCsvFrom(csv, i, rows, current, field, inQuotes) ==
  IF i > Len(csv)
  THEN LET last == Append(current, field)
       IN IF ~(Len(last) = 1 /\ last[1] = <<>>) THEN Append(rows, last) ELSE rows
  ELSE LET ch == csv[i]
       IN IF inQuotes
          THEN IF ch = "\""
               THEN IF i + 1 <= Len(csv) /\ csv[i + 1] = "\""
                    THEN parseCsvFrom(csv, i + 2, rows, current, Append(field, "\""), TRUE)
                    ELSE parseCsvFrom(csv, i + 1, rows, current, field, FALSE)
               ELSE parseCsvFrom(csv, i + 1, rows, current, Append(field, ch), TRUE)
          ELSE IF ch = "\""
               THEN parseCsvFrom(csv, i + 1, rows, current, field, TRUE)
          ELSE IF ch = ","
               THEN parseCsvFrom(csv, i + 1, rows, Append(current, field), <<>>, FALSE)
          ELSE IF ch = "\n"
               THEN parseCsvFrom(csv, i + 1, Append(rows, Append(current, field)),
                                 <<>>, <<>>, FALSE)
          ELSE IF ch = "\r"
               THEN parseCsvFrom(csv, i + 1, rows, current, field, FALSE)
          ELSE parseCsvFrom(csv, i + 1, rows, current, Append(field, ch), FALSE)

parseCsvLines(csv) == parseCsvFrom(csv, 1, <<>>, <<>>, <<>>, FALSE)

\* s.replace(/\s+/g, "_")
RECURSIVE underscoreSpaces(_, _)
underscoreSpaces(s, inRun) ==
  IF s = <<>> THEN <<>>
  ELSE IF IsSpace(Head(s))
       THEN (IF inRun THEN <<>> ELSE <<"_">>) \o underscoreSpaces(Tail(s), TRUE)
       ELSE <<Head(s)>> \o underscoreSpaces(Tail(s), FALSE)

\* h.trim().toLowerCase().replace(/\s+/g, "_")
normalizeHeader(h) == underscoreSpaces(toLowerCase(trim(h)), FALSE)

\* The header names the import knows, each with the field it fills.
fieldMap ==
  <<
    <<<<"f", "i", "r", "s", "t", "_", "n", "a", "m", "e">>, "first_name">>,
    <<<<"f", "i", "r", "s", "t", "n", "a", "m", "e">>, "first_name">>,
    <<<<"f", "i", "r", "s", "t">>, "first_name">>,
    <<<<"l", "a", "s", "t", "_", "n", "a", "m", "e">>, "last_name">>,
    <<<<"l", "a", "s", "t", "n", "a", "m", "e">>, "last_name">>,
    <<<<"l", "a", "s", "t">>, "last_name">>,
    <<<<"s", "u", "r", "n", "a", "m", "e">>, "last_name">>,
    <<<<"e", "m", "a", "i", "l">>, "email">>,
    <<<<"e", "m", "a", "i", "l", "_", "a", "d", "d", "r", "e", "s", "s">>, "email">>,
    <<<<"e", "-", "m", "a", "i", "l">>, "email">>,
    <<<<"p", "h", "o", "n", "e">>, "phone">>,
    <<<<"p", "h", "o", "n", "e", "_", "n", "u", "m", "b", "e", "r">>, "phone">>,
    <<<<"t", "e", "l", "e", "p", "h", "o", "n", "e">>, "phone">>,
    <<<<"m", "o", "b", "i", "l", "e">>, "phone">>,
    <<<<"c", "o", "m", "p", "a", "n", "y">>, "company_name">>,
    <<<<"c", "o", "m", "p", "a", "n", "y", "_", "n", "a", "m", "e">>, "company_name">>,
    <<<<"o", "r", "g", "a", "n", "i", "z", "a", "t", "i", "o", "n">>, "company_name">>,
    <<<<"o", "r", "g">>, "company_name">>,
    <<<<"b", "i", "r", "t", "h", "d", "a", "y">>, "birthday">>,
    <<<<"d", "a", "t", "e", "_", "o", "f", "_", "b", "i", "r", "t", "h">>, "birthday">>,
    <<<<"d", "o", "b">>, "birthday">>,
    <<<<"b", "i", "r", "t", "h", "_", "d", "a", "t", "e">>, "birthday">>,
    <<<<"a", "n", "n", "i", "v", "e", "r", "s", "a", "r", "y">>, "anniversary">>,
    <<<<"t", "a", "g", "s">>, "tags">>,
    <<<<"l", "a", "b", "e", "l", "s">>, "tags">>,
    <<<<"c", "a", "t", "e", "g", "o", "r", "i", "e", "s">>, "tags">>,
    <<<<"n", "o", "t", "e", "s">>, "notes">>,
    <<<<"n", "o", "t", "e">>, "notes">>,
    <<<<"d", "e", "s", "c", "r", "i", "p", "t", "i", "o", "n">>, "notes">>,
    <<<<"n", "i", "c", "k", "n", "a", "m", "e">>, "nickname">>,
    <<<<"n", "i", "c", "k">>, "nickname">>
  >>

\* fieldMap[header], "undefined" for a header that is not a key.
fieldOf(header) ==
  LET hits == {i \in 1..Len(fieldMap) : fieldMap[i][1] = header}
  IN IF hits = {} THEN "undefined" ELSE fieldMap[CHOOSE i \in hits : TRUE][2]

\* colMap: the columns whose header is known, left to right.  Columns count
\* from 1 here and from 0 in the code.
RECURSIVE colMap(_, _)
colMap(headers, i) ==
  IF i > Len(headers) THEN <<>>
  ELSE IF fieldOf(headers[i]) # "undefined"
       THEN <<[index |-> i, field |-> fieldOf(headers[i])]>> \o colMap(headers, i + 1)
       ELSE colMap(headers, i + 1)

RowFields ==
  {"first_name", "last_name", "email", "phone", "company_name", "birthday",
   "anniversary", "tags", "notes", "nickname"}

\* row[field] = cols[index].trim() for every mapped column that is not blank.
RECURSIVE fillRow(_, _, _)
fillRow(row, cm, cols) ==
  IF cm = <<>> THEN row
  ELSE LET e == Head(cm)
       IN fillRow(IF e.index <= Len(cols) /\ trim(cols[e.index]) # <<>>
                  THEN [row EXCEPT ![e.field] = trim(cols[e.index])]
                  ELSE row,
                  Tail(cm), cols)

\* lines.length < 1 in place of lines.length < 2.
tooFewLinesForHeader(lines) == Len(lines) < 1

\* lines.length < 2
tooFewLines(lines) == Len(lines) < 2

\* The probe without the row's last name.
rowProbeFirstNameOnly(row) ==
  [email |-> row.email, first_name |-> row.first_name, last_name |-> NULL]

\* What the row loop asks findDuplicates about.
rowProbe(row) ==
  [email |-> row.email, first_name |-> row.first_name, last_name |-> row.last_name]

\* Resolve company: the first company getCompanies returns whose name is the
\* row's, both lower-cased by String.prototype.toLowerCase, else a new one.
resolveCompany(st, name) ==
  IF name = NULL
  THEN [companies |-> st.companies, companySeq |-> st.companySeq, company_id |-> NoId]
  ELSE LET found == getCompanies(st.companies, name)
           exact == {i \in 1..Len(found) : toLowerCase(found[i].name) = toLowerCase(name)}
       IN IF exact # {}
          THEN [companies |-> st.companies, companySeq |-> st.companySeq,
                company_id |-> found[CHOOSE i \in exact : \A j \in exact : i <= j].id]
          ELSE [companies |-> insertCompany(st.companies, st.companySeq,
                                            [name |-> name, website |-> NULL,
                                             industry |-> NULL, notes |-> NULL]),
                companySeq |-> st.companySeq + 1,
                company_id |-> st.companySeq + 1]

\* The tables as a step of the import finds or leaves them.
tablesOf(st) == [contacts |-> st.contacts, companies |-> st.companies]

\* Mutant: no row is passed over as blank.
blankRowKept(cols) == FALSE

\* cols.length === 0 || (cols.length === 1 && cols[0].trim() === ""): the
\* row is passed over.
blankRow(cols) == Len(cols) = 0 \/ (Len(cols) = 1 /\ trim(cols[1]) = <<>>)

\* One turn of the row loop on lines[k], which the messages call row k.  st
\* holds the tables and the result so far; st.steps records, for every row
\* that is not blank, what was read and the tables before and after it.
importRow(st, cm, cols, k) ==
  IF blankRow(cols) THEN st
  ELSE
    LET row == fillRow([f \in RowFields |-> NULL], cm, cols)
        step(kind, after) ==
          [row |-> k, data |-> row, kind |-> kind,
           before |-> tablesOf(st), after |-> after]
    IN IF row.first_name = NULL
       THEN [st EXCEPT
               !.errors = Append(@, [row |-> k, message |-> "missing first_name, skipped"]),
               !.skipped = @ + 1,
               !.steps = Append(@, step("error", tablesOf(st)))]
       ELSE
         LET dupes == findDuplicates(st.contacts, rowProbe(row))
         IN IF Len(dupes) > 0
            THEN [st EXCEPT
                    !.duplicates =
                       Append(@, [row |-> k, existing |-> dupes[1],
                                  incoming |-> trim(row.first_name \o <<" ">>
                                                    \o Coalesce(row.last_name))]),
                    !.skipped = @ + 1,
                    !.steps = Append(@, step("duplicate", tablesOf(st)))]
            ELSE
              LET co   == resolveCompany(st, row.company_name)
                  rows == insertContact(st.contacts, st.contactSeq,
                            [first_name |-> row.first_name, last_name |-> row.last_name,
                             nickname |-> row.nickname, email |-> row.email,
                             phone |-> row.phone, company_id |-> co.company_id,
                             birthday |-> row.birthday, anniversary |-> row.anniversary,
                             tags |-> row.tags, notes |-> row.notes,
                             avatar_url |-> NULL, custom_fields |-> NULL])
              IN [st EXCEPT
                    !.contacts = rows,
                    !.contactSeq = @ + 1,
                    !.companies = co.companies,
                    !.companySeq = co.companySeq,
                    !.created = @ + 1,
                    !.steps = Append(@, step("created",
                                 [contacts |-> rows, companies |-> co.companies]))]

\* for (let rowIdx = 1; rowIdx < lines.length; rowIdx++)
RECURSIVE importRows(_, _, _, _)
importRows(st, cm, lines, k) ==
  IF k > Len(lines) THEN st
  ELSE importRows(importRow(st, cm, lines[k], k), cm, lines, k + 1)

\* crmApi.importContactsCsv on the tables given: the tables and the result
\* it leaves.
importContactsCsv(tables, csv) ==
  LET result == [contacts |-> tables.contacts, companies |-> tables.companies,
                 contactSeq |-> tables.contactSeq, companySeq |-> tables.companySeq,
                 created |-> 0, skipped |-> 0, errors |-> <<>>, duplicates |-> <<>>,
                 steps |-> <<>>]
      lines  == parseCsvLines(csv)
  IN IF tooFewLines(lines)
     THEN [result EXCEPT !.errors =
             <<[message |-> "CSV must have a header row and at least one data row"]>>]
     ELSE LET headers == [i \in 1..Len(lines[1]) |-> normalizeHeader(lines[1][i])]
              cm      == colMap(headers, 1)
          IN IF ~\E i \in 1..Len(cm) : cm[i].field = "first_name"
             THEN [result EXCEPT !.errors =
                     <<[message |-> "Missing required column: first_name",
                        found |-> headers]>>]
             ELSE importRows(result, cm, lines, 2)

----------------------------------------------------------------------------
(* The import's bounds, inputs and operations.                             *)

\* The import runs while fewer contacts than this were ever inserted.
MaxImportContacts == 2

\* The number of companies created by hand.
MaxCompanies == 1

t_al    == <<"a", "l">>
t_AL    == <<"A", "L">>
t_bo    == <<"b", "o">>
t_wo    == <<"w", "o">>
t_WO    == <<"W", "O">>
t_mailA == <<"a", "@", "w">>
t_Ab    == <<"A", "b">>
t_AB    == <<"A", "B">>
t_AE    == <<"AE">>
t_ae    == <<"ae">>

\* A line of comma-separated fields and a text of lines.
Line(fields) == join(fields, <<",">>)

Lines(ls) == join(ls, <<"\n">>)

h_std == Line(<<<<"f", "i", "r", "s", "t">>, <<"l", "a", "s", "t">>, <<"e", "m", "a", "i", "l">>, <<"o", "r", "g">>>>)

CsvInputs ==
  { <<>>,
    h_std,
    Lines(<<Line(<<<<"l", "a", "s", "t">>, <<"e", "m", "a", "i", "l">>>>), Line(<<t_wo, t_mailA>>)>>),
    h_std \o <<"\n", "\n">>,
    Lines(<<h_std, Line(<<t_al, t_wo, t_mailA, t_Ab>>), Line(<<t_AL, t_WO, <<>>, t_AB>>)>>),
    Lines(<<h_std, Line(<<t_al, t_wo, t_mailA, t_Ab>>), Line(<<t_bo, <<>>, t_mailA, <<>>>>)>>),
    Lines(<<h_std, Line(<<t_al, <<>>, <<>>, t_Ab>>), Line(<<t_bo, <<>>, <<>>, t_AB>>)>>),
    Lines(<<h_std, Line(<<t_al, <<>>, <<>>, t_AE>>), Line(<<t_bo, <<>>, <<>>, t_ae>>)>>),
    Lines(<<h_std, Line(<<<<>>, t_wo, <<>>, <<>>>>), Line(<<t_bo, t_wo, <<>>, <<>>>>)>>),
    Lines(<<h_std, Line(<<t_al, t_wo, <<>>, <<>>>>), <<>>, Line(<<t_bo, <<>>, <<>>, t_Ab>>)>>),
    <<"F", "i", "r", "s", "t", " ", "N", "a", "m", "e", ",", "S", "U", "R", "N", "A", "M", "E">> \o <<"\r", "\n", "\"", " ">> \o t_bo \o <<" ", "\"", ",">>
      \o t_wo \o <<"\r", "\n">> }

\* The contacts stored before an import.
StoredContacts ==
  { Person(t_al, t_wo, NULL, t_mailA),
    Person(t_bo, NULL, NULL, NULL) }

\* The companies created by hand.
CompanyInputs ==
  { [name |-> t_Ab, website |-> NULL, industry |-> NULL, notes |-> NULL],
    [name |-> t_AE, website |-> NULL, industry |-> NULL, notes |-> NULL],
    [name |-> <<"C", "o">>, website |-> NULL, industry |-> t_Ab, notes |-> NULL] }

CreateStoredContact == CreateContactOf(StoredContacts, MaxImportContacts)

\* crmApi.createCompany(data)
CreateCompany ==
  \E data \in CompanyInputs :
    /\ companySeq < MaxCompanies
    /\ companies' = insertCompany(companies, companySeq, data)
    /\ companySeq' = companySeq + 1
    /\ out' = [op |-> "createCompany", id |-> companySeq + 1]
    /\ UNCHANGED <<contacts, contactSeq, rest>>

\* crmApi.importContactsCsv(csv)
ImportContactsCsv ==
  \E csv \in CsvInputs :
    /\ contactSeq < MaxImportContacts
    /\ LET r == importContactsCsv([contacts |-> contacts, companies |-> companies,
                                   contactSeq |-> contactSeq,
                                   companySeq |-> companySeq], csv)
       IN /\ contacts' = r.contacts
          /\ companies' = r.companies
          /\ contactSeq' = r.contactSeq
          /\ companySeq' = r.companySeq
          /\ out' = [op |-> "importContactsCsv", csv |-> csv,
                     result |-> [created |-> r.created, skipped |-> r.skipped,
                                 errors |-> r.errors, duplicates |-> r.duplicates],
                     steps |-> r.steps]
          /\ handled' = IF r.created > 0 THEN emitted("contact.created") ELSE handled
    /\ UNCHANGED <<links, services>>

NextImport ==
  \/ CreateStoredContact
  \/ CreateCompany
  \/ ImportContactsCsv

ImportSpec == Init /\ [][NextImport]_vars

----------------------------------------------------------------------------
(* Properties of the import.                                               *)

Imported == out.op = "importContactsCsv"

\* The contacts of tbl that duplicate the row: the same email, or the same
\* names letter case aside.
DuplicatesOfRow(tbl, row) == {c \in SeqToSet(tbl) : IsDuplicate(c, row)}

\* The CSV fails a header check: fewer than two rows are parsed from it, or
\* no header of its first row is a name of first_name.
HeaderChecksFail(csv) ==
  LET lines == parseCsvLines(csv)
  IN \/ Len(lines) < 2
     \/ \A i \in 1..Len(lines[1]) : fieldOf(normalizeHeader(lines[1][i])) # "first_name"

\* The rows of the CSV after the header that are not blank.
DataRows(csv) ==
  LET lines == parseCsvLines(csv)
  IN {k \in 2..Len(lines) : ~(Len(lines[k]) = 1 /\ trim(lines[k][1]) = <<>>)}

\* What C8 says of an import o that found the tables c0, co0 and left c1, co1.
RowsHandledAsClaimed(c0, co0, c1, co1, o) ==
  LET steps   == o.steps
      n       == Len(steps)
      named   == {k \in 1..n : steps[k].data.first_name # NULL}
      dupRows == {k \in named :
                    DuplicatesOfRow(steps[k].before.contacts, steps[k].data) # {}}
  IN /\ ~HeaderChecksFail(o.csv) => {steps[k].row : k \in 1..n} = DataRows(o.csv)
     /\ \A k \in 1..n :
          /\ steps[k].before = IF k = 1 THEN [contacts |-> c0, companies |-> co0]
                               ELSE steps[k - 1].after
          /\ k < n => steps[k].row < steps[k + 1].row
     /\ [contacts |-> c1, companies |-> co1] =
          IF n = 0 THEN [contacts |-> c0, companies |-> co0] ELSE steps[n].after
     /\ \A k \in named :
          IF k \in dupRows
          THEN /\ steps[k].kind = "duplicate"
               /\ steps[k].after = steps[k].before
               /\ \E d \in 1..Len(o.result.duplicates) :
                    /\ o.result.duplicates[d].row = steps[k].row
                    /\ o.result.duplicates[d].existing \in
                         DuplicatesOfRow(steps[k].before.contacts, steps[k].data)
          ELSE /\ steps[k].kind = "created"
               /\ Len(steps[k].after.contacts) = Len(steps[k].before.contacts) + 1
               /\ SubSeq(steps[k].after.contacts, 1, Len(steps[k].before.contacts))
                    = steps[k].before.contacts
               /\ steps[k].after.contacts[Len(steps[k].after.contacts)].first_name
                    = steps[k].data.first_name
     /\ o.result.created = Cardinality(named \ dupRows)
     /\ Len(o.result.duplicates) = Cardinality(dupRows)

\* C8: the import handles the data rows in order, each against the tables as
\* the rows before it left them.  A row with a first name that duplicates a
\* contact stored at that moment is listed in duplicates with one of the
\* contacts it duplicates and changes no contact and no company; any other row
\* with a first name adds exactly one contact and counts in created.
C8_RowsSkippedOrCreated ==
  [][out'.op = "importContactsCsv" =>
       RowsHandledAsClaimed(contacts, companies, contacts', companies', out')]_vars

\* A row is skipped as the duplicate of a contact that an earlier row of the
\* same import created.
C8_Witness ==
  /\ Imported
  /\ out.result.created = 1
  /\ \E d \in 1..Len(out.result.duplicates) :
       /\ out.result.duplicates[d].existing \in SeqToSet(contacts)
       /\ out.result.duplicates[d].existing \notin SeqToSet(out.steps[1].before.contacts)

\* Two company names are the same in any letter case.
SameNameAnyCase(a, b) == toLowerCase(a) = toLowerCase(b)

\* C9 as claimed: a row that creates a contact and names a company links the
\* contact to a company of that name in any letter case, the existing one when
\* there is one, and creates a company only when no company has that name, so
\* that rows naming one company create it at most once.
C9_CompanyResolvedOrCreatedOnce ==
  Imported =>
    \A k \in 1..Len(out.steps) :
      LET s        == out.steps[k]
          new      == s.after.contacts[Len(s.after.contacts)]
          named(cos) == {i \in 1..Len(cos) :
                           SameNameAnyCase(cos[i].name, s.data.company_name)}
      IN s.kind = "created" /\ s.data.company_name # NULL =>
           /\ \E i \in named(s.after.companies) : s.after.companies[i].id = new.company_id
           /\ IF named(s.before.companies) # {}
              THEN s.after.companies = s.before.companies
              ELSE Len(s.after.companies) = Len(s.before.companies) + 1

\* C10: an import of a CSV that fails a header check changes no table and
\* returns created 0, skipped 0, no duplicates and one error.
C10_HeaderChecksFailFast ==
  [][out'.op = "importContactsCsv" /\ HeaderChecksFail(out'.csv) =>
       /\ contacts' = contacts
       /\ companies' = companies
       /\ contactSeq' = contactSeq
       /\ companySeq' = companySeq
       /\ out'.result.created = 0
       /\ out'.result.skipped = 0
       /\ out'.result.duplicates = <<>>
       /\ Len(out'.result.errors) = 1]_vars

\* A CSV with a data row and no first_name column was refused while a contact
\* was stored.
C10_Witness ==
  /\ Imported
  /\ Len(parseCsvLines(out.csv)) >= 2
  /\ HeaderChecksFail(out.csv)
  /\ Len(out.result.errors) = 1
  /\ contacts # <<>>

----------------------------------------------------------------------------
(* The CSV encoder of the export.                                          *)

\* s.replace(/"/g, '""')
RECURSIVE doubleQuotes(_)
doubleQuotes(s) ==
  IF s = <<>> THEN <<>>
  ELSE (IF Head(s) = "\"" THEN <<"\"", "\"">> ELSE <<Head(s)>>) \o doubleQuotes(Tail(s))

\* escCsv: a null, undefined or empty value is the empty field; a value with
\* a comma, a double quote or a line feed is quoted.
escCsv(val) ==
  IF val = NULL \/ val = <<>> THEN <<>>
  ELSE IF includes(val, ",") \/ includes(val, "\"") \/ includes(val, "\n")
       THEN <<"\"">> \o doubleQuotes(val) \o <<"\"">>
       ELSE val

\* The longest field value encoded.
MaxFieldLen == 3

\* The characters a field value is made of.
FieldChars == {"a", ",", "\"", "\n", "\r"}

FieldInputs == UNION {[1..k -> FieldChars] : k \in 0..MaxFieldLen}

\* A field value is chosen.
InitCsv ==
  /\ contacts = <<>>
  /\ companies = <<>>
  /\ contactSeq = 0
  /\ companySeq = 0
  /\ InitRest
  /\ out \in {[op |-> "field", val |-> s] : s \in FieldInputs}

\* parseCsvLines(escCsv(val))
EncodeAndParse ==
  /\ out.op = "field"
  /\ out' = [op |-> "escCsv", val |-> out.val, csv |-> escCsv(out.val),
             rows |-> parseCsvLines(escCsv(out.val))]
  /\ UNCHANGED <<contacts, companies, contactSeq, companySeq, rest>>

NextCsv == EncodeAndParse

CsvSpec == InitCsv /\ [][NextCsv]_vars

\* C11 as claimed: parsing the encoding of a field value s yields the one row
\* <<s>>, whatever s is.
C11_EncodedFieldParsesBack ==
  out.op = "escCsv" => out.rows = <<<<out.val>>>>

----------------------------------------------------------------------------
(* The edit distance on its own.                                           *)

\* The longest word compared.
MaxWordLen == 3

WordChars == {"a", "b", "c"}

WordInputs == UNION {[1..k -> WordChars] : k \in 0..MaxWordLen}

\* Two words are chosen.
InitLev ==
  /\ contacts = <<>>
  /\ companies = <<>>
  /\ contactSeq = 0
  /\ companySeq = 0
  /\ InitRest
  /\ out \in {[op |-> "words", a |-> a, b |-> b] : a \in WordInputs, b \in WordInputs}

\* levenshtein(a, b)
Levenshtein ==
  /\ out.op = "words"
  /\ out' = [op |-> "levenshtein", a |-> out.a, b |-> out.b,
             distance |-> levenshtein(out.a, out.b)]
  /\ UNCHANGED <<contacts, companies, contactSeq, companySeq, rest>>

NextLev == Levenshtein

LevSpec == InitLev /\ [][NextLev]_vars

\* The words one insertion, deletion or substitution away from s that are no
\* longer than MaxWordLen.
OneEdit(s) ==
  {SubSeq(s, 1, i - 1) \o SubSeq(s, i + 1, Len(s)) : i \in 1..Len(s)}
  \cup {[s EXCEPT ![i] = c] : i \in 1..Len(s), c \in WordChars}
  \cup (IF Len(s) < MaxWordLen
        THEN {SubSeq(s, 1, i) \o <<c>> \o SubSeq(s, i + 1, Len(s)) :
                i \in 0..Len(s), c \in WordChars}
        ELSE {})

\* The words at most k edits away from a.
RECURSIVE WithinEdits(_, _)
WithinEdits(a, k) ==
  IF k = 0 THEN {a}
  ELSE LET near == WithinEdits(a, k - 1)
       IN near \cup UNION {OneEdit(s) : s \in near}

\* The least number of edits that make b of a.
MinEdits(a, b) ==
  CHOOSE k \in 0..(2 * MaxWordLen) :
    /\ b \in WithinEdits(a, k)
    /\ k > 0 => b \notin WithinEdits(a, k - 1)

\* C12: levenshtein(a, b) is the least number of single-character insertions,
\* deletions and substitutions that make b of a; it is the same for (b, a),
\* 0 for (a, a) and the length of a for (a, "").
C12_LevenshteinIsEditDistance ==
  out.op = "levenshtein" =>
    /\ out.distance = MinEdits(out.a, out.b)
    /\ levenshtein(out.b, out.a) = out.distance
    /\ levenshtein(out.a, out.a) = 0
    /\ levenshtein(out.a, <<>>) = Len(out.a)

\* Two words of different lengths, two edits apart.
C12_Witness ==
  /\ out.op = "levenshtein"
  /\ out.distance = 2
  /\ Len(out.a) > Len(out.b)
  /\ out.b # <<>>

----------------------------------------------------------------------------
(* The CSV export.                                                         *)

\* The LIMIT exportContactsCsv passes to getContacts.  It is 100 000 in the
\* code; the model scales it down so that a store can hold more contacts
\* than the export reads.
ExportLimit == 2

\* headers
exportHeaders ==
  <<<<"f", "i", "r", "s", "t", "_", "n", "a", "m", "e">>, <<"l", "a", "s", "t", "_", "n", "a", "m", "e">>, <<"e", "m", "a", "i", "l">>, <<"p", "h", "o", "n", "e">>, <<"c", "o", "m", "p", "a", "n", "y", "_", "n", "a", "m", "e">>,
    <<"b", "i", "r", "t", "h", "d", "a", "y">>, <<"a", "n", "n", "i", "v", "e", "r", "s", "a", "r", "y">>, <<"t", "a", "g", "s">>, <<"n", "o", "t", "e", "s">>>>

\* The line of one contact: its nine values encoded and joined by commas.
exportRow(c) ==
  join(<<escCsv(c.first_name), escCsv(c.last_name), escCsv(c.email), escCsv(c.phone),
         escCsv(company_name(c)), escCsv(c.birthday), escCsv(c.anniversary),
         escCsv(c.tags), escCsv(c.notes)>>, <<",">>)

\* crmApi.exportContactsCsv
exportContactsCsv ==
  LET cs == getContacts(NULL, ExportLimit).rows
  IN join(<<join(exportHeaders, <<",">>)>> \o [i \in 1..Len(cs) |-> exportRow(cs[i])],
          <<"\n">>)

\* The number of contacts ever inserted before an export.
MaxExportContacts == 3

t_note == <<"a", ",", "\"", "b", "\"">>

\* The contacts exported: one with every column filled, one with nothing
\* but a first name.
ExportContacts ==
  { [Person(t_al, t_wo, NULL, t_mailA) EXCEPT
       !.phone = <<"p">>, !.company_id = 1, !.birthday = <<"d">>, !.anniversary = <<"e">>,
       !.tags = <<"t">>, !.notes = t_note],
    Person(t_bo, NULL, NULL, NULL),
    Person(t_AL, <<>>, NULL, NULL) }

CreateExportContact == CreateContactOf(ExportContacts, MaxExportContacts)

\* crmApi.exportContactsCsv()
ExportContactsCsv ==
  /\ out' = [op |-> "exportContactsCsv", csv |-> exportContactsCsv]
  /\ UNCHANGED <<contacts, companies, contactSeq, companySeq, rest>>

NextExport ==
  \/ CreateExportContact
  \/ CreateCompany
  \/ ExportContactsCsv

ExportSpec == Init /\ [][NextExport]_vars

\* A value as the claim renders it: nothing for a missing value.
Rendered(v) == IF v = NULL THEN <<>> ELSE escCsv(v)

\* The record of contact c in the column order of the header.
RecordOf(c) ==
  join(<<Rendered(c.first_name), Rendered(c.last_name), Rendered(c.email),
         Rendered(c.phone), Rendered(company_name(c)), Rendered(c.birthday),
         Rendered(c.anniversary), Rendered(c.tags), Rendered(c.notes)>>, <<",">>)

\* The orders in which n rows can be written.
Orders(n) == {f \in [1..n -> 1..n] : \A i, j \in 1..n : f[i] = f[j] => i = j}

\* C13 as claimed: the export is the header line followed by the record of
\* every stored contact, one line each in some order.
C13_ExportHasEveryContact ==
  out.op = "exportContactsCsv" =>
    \E f \in Orders(Len(contacts)) :
      out.csv = join(<<<<"f", "i", "r", "s", "t", "_", "n", "a", "m", "e", ",", "l", "a", "s", "t", "_", "n", "a", "m", "e", ",", "e", "m", "a", "i", "l", ",", "p", "h", "o", "n", "e", ",", "c", "o", "m", "p", "a", "n", "y", "_", "n", "a", "m", "e", ",", "b", "i", "r", "t", "h", "d", "a", "y", ",", "a", "n", "n", "i", "v", "e", "r", "s", "a", "r", "y", ",", "t", "a", "g", "s", ",", "n", "o", "t", "e", "s">>>>
                       \o [i \in 1..Len(contacts) |-> RecordOf(contacts[f[i]])],
                     <<"\n">>)

\* The claim restricted to the stores the export reads in full.
C13_ExportWithinLimit ==
  Len(contacts) <= ExportLimit => C13_ExportHasEveryContact

----------------------------------------------------------------------------
(* Updates and deletes of contacts and companies.                          *)

\* DELETE FROM <table> WHERE id = ?
rowsWithout(tbl, id) == rowsWhere(tbl, {i \in 1..Len(tbl) : tbl[i].id # id}, 1)

\* stmts.getContactById / stmts.getCompanyById: the row with the id, in a
\* sequence that is empty when there is none.
rowsWithId(tbl, id) == rowsWhere(tbl, {i \in 1..Len(tbl) : tbl[i].id = id}, 1)

\* FOREIGN KEY (company_id) ... ON DELETE CASCADE in place of SET NULL.
onDeleteCompanyCascade(tbl, id) ==
  rowsWhere(tbl, {i \in 1..Len(tbl) : tbl[i].company_id # id}, 1)

\* FOREIGN KEY (company_id) REFERENCES crm_companies(id) ON DELETE SET NULL
onDeleteCompany(tbl, id) ==
  [i \in 1..Len(tbl) |->
     IF tbl[i].company_id = id THEN [tbl[i] EXCEPT !.company_id = NoId] ELSE tbl[i]]

\* FOREIGN KEY (contact_id) REFERENCES crm_contacts(id) ON DELETE CASCADE
onDeleteContact(tbl, id) ==
  rowsWhere(tbl, {i \in 1..Len(tbl) : tbl[i].contact_id # id}, 1)

\* crm_relationships with a cascade on contact_id alone.
onDeleteContactOneKey(tbl, id) ==
  rowsWhere(tbl, {i \in 1..Len(tbl) : tbl[i].contact_id # id}, 1)

\* The two cascading keys of crm_relationships.
onDeleteContactRelated(tbl, id) ==
  rowsWhere(tbl, {i \in 1..Len(tbl) : /\ tbl[i].contact_id # id
                                      /\ tbl[i].related_contact_id # id}, 1)

\* The number of contacts ever inserted where contacts are updated.
MaxCrudContacts == 2

\* The last second of the clock.
MaxTime == 1

\* The ids an update or delete is called with: one more than can exist.
ContactIdInputs == 1..(MaxCrudContacts + 1)

CompanyIdInputs == 1..(MaxCompanies + 1)

t_n == <<"n">>

CrudContacts ==
  { [Person(t_al, t_wo, NULL, t_mailA) EXCEPT !.company_id = 1, !.notes = t_n],
    Person(t_bo, NULL, NULL, NULL) }

CrudCompanies ==
  { [name |-> t_Ab, website |-> NULL, industry |-> NULL, notes |-> NULL] }

CreateCrudContact == CreateContactOf(CrudContacts, MaxCrudContacts)

CreateCrudCompany ==
  \E data \in CrudCompanies :
    /\ companySeq < MaxCompanies
    /\ companies' = insertCompany(companies, companySeq, data)
    /\ companySeq' = companySeq + 1
    /\ out' = [op |-> "createCompany", id |-> companySeq + 1]
    /\ UNCHANGED <<contacts, contactSeq, rest>>

\* A second passes.
Tick ==
  /\ now < MaxTime
  /\ now' = now + 1
  /\ out' = [op |-> "tick"]
  /\ UNCHANGED <<contacts, companies, contactSeq, companySeq,
                 interactions, reminders, relationships, groups, members, seqs,
                 version, runs, host>>

\* result.changes of a DELETE ... WHERE id = ?
changesAlways(tbl, id) == 1

changes(tbl, id) == Cardinality({i \in 1..Len(tbl) : tbl[i].id = id})

\* crmApi.deleteCompany(id): result.changes > 0
DeleteCompany ==
  \E id \in CompanyIdInputs :
    /\ companies' = rowsWithout(companies, id)
    /\ contacts' = onDeleteCompany(contacts, id)
    /\ out' = [op |-> "deleteCompany", id |-> id,
               result |-> (changes(companies, id) > 0), events |-> <<>>]
    /\ UNCHANGED <<contactSeq, companySeq, rest>>

\* crmApi.deleteContact(id): the rows that hang on the contact go with it.
DeleteContact ==
  \E id \in ContactIdInputs :
    IF id \notin ContactIds
    THEN /\ out' = [op |-> "deleteContact", id |-> id, result |-> FALSE, events |-> <<>>]
         /\ UNCHANGED <<contacts, companies, contactSeq, companySeq, rest>>
    ELSE /\ contacts' = rowsWithout(contacts, id)
         /\ interactions' = onDeleteContact(interactions, id)
         /\ reminders' = onDeleteContact(reminders, id)
         /\ relationships' = onDeleteContactRelated(relationships, id)
         /\ members' = onDeleteContact(members, id)
         /\ out' = [op |-> "deleteContact", id |-> id, result |-> TRUE,
                    events |-> <<[event |-> "contact.deleted", id |-> id]>>]
         /\ handled' = emitted("contact.deleted")
         /\ UNCHANGED <<companies, contactSeq, companySeq, groups, seqs, now, version, runs,
                        services>>

\* The columns an update can set.
UpdateFields ==
  {"first_name", "last_name", "nickname", "email", "phone", "company_id", "birthday",
   "anniversary", "notes", "avatar_url", "tags", "custom_fields"}

\* The value of a field that the data does not supply (undefined).
Unsupplied(f) == IF f = "company_id" THEN NoId ELSE NULL

\* The row written with every field of the data, supplied or not.
updatedRowOverwritten(existing, data) ==
  [f \in DOMAIN existing |->
     IF f \in UpdateFields THEN data[f]
     ELSE IF f = "updated_at" THEN now
     ELSE existing[f]]

\* stmts.updateContact run with data.x ?? existing.x (or data.x !== undefined
\* ? data.x : existing.x) for every column, and updated_at = datetime('now').
updatedRow(existing, data) ==
  [f \in DOMAIN existing |->
     IF f \in UpdateFields
     THEN (IF data[f] # Unsupplied(f) THEN data[f] ELSE existing[f])
     ELSE IF f = "updated_at" THEN now
     ELSE existing[f]]

\* UPDATE ... WHERE id = ?
rowsWith(tbl, id, row) == [i \in 1..Len(tbl) |-> IF tbl[i].id = id THEN row ELSE tbl[i]]

NoUpdate == [f \in UpdateFields |-> Unsupplied(f)]

\* The data of the updates: nothing, an empty last name, a first name with a
\* company, and a company that cannot exist.
UpdateInputs ==
  { NoUpdate,
    [NoUpdate EXCEPT !.last_name = <<>>],
    [NoUpdate EXCEPT !.first_name = t_AL, !.company_id = 1],
    [NoUpdate EXCEPT !.company_id = MaxCompanies + 1] }

\* crmApi.updateContact(id, data)
UpdateContactOf(ids, inputs) ==
  \E id \in ids, data \in inputs :
    LET existing == rowsWithId(contacts, id)
        call     == [op |-> "updateContact", id |-> id, data |-> data]
    IN IF existing = <<>>
       THEN /\ out' = call @@ [result |-> "null", events |-> <<>>]
            /\ UNCHANGED <<contacts, companies, contactSeq, companySeq, rest>>
       ELSE LET row == updatedRow(existing[1], data)
            IN IF row.company_id # NoId /\ row.company_id \notin CompanyIds
               THEN /\ out' = call @@ [result |-> "throws", events |-> <<>>,
                                       error |-> "FOREIGN KEY constraint failed"]
                    /\ UNCHANGED <<contacts, companies, contactSeq, companySeq, rest>>
               ELSE /\ contacts' = rowsWith(contacts, id, row)
                    /\ out' = call @@ [result |-> "contact",
                                       events |-> <<[event |-> "contact.updated", id |-> id]>>]
                    /\ handled' = emitted("contact.updated")
                    /\ UNCHANGED <<companies, contactSeq, companySeq, links, services>>

UpdateContact == UpdateContactOf(ContactIdInputs, UpdateInputs)

NextCrud ==
  \/ CreateCrudContact
  \/ CreateCrudCompany
  \/ Tick
  \/ UpdateContact
  \/ DeleteContact
  \/ DeleteCompany

CrudSpec == Init /\ [][NextCrud]_vars

----------------------------------------------------------------------------
(* Properties of the updates and deletes.                                  *)

\* The ids of the rows of a table.
IdsOf(tbl) == {tbl[i].id : i \in 1..Len(tbl)}

\* C14: deleteCompany of an existing company deletes no contact, leaves every
\* contact that referenced the company with no company, and changes no other
\* field of any contact.
C14_DeleteCompanyKeepsContacts ==
  [][out'.op = "deleteCompany" /\ out'.id \in IdsOf(companies) =>
       /\ Len(contacts') = Len(contacts)
       /\ \A i \in 1..Len(contacts) :
            /\ DOMAIN contacts'[i] = DOMAIN contacts[i]
            /\ \A f \in DOMAIN contacts[i] \ {"company_id"} :
                 contacts'[i][f] = contacts[i][f]
            /\ contacts'[i].company_id =
                 IF contacts[i].company_id = out'.id THEN NoId
                 ELSE contacts[i].company_id]_vars

\* A company was deleted and the contact created with it is still stored,
\* with no company.
C14_Witness ==
  /\ out.op = "deleteCompany"
  /\ out.result
  /\ \E i \in 1..Len(contacts) : contacts[i].notes = t_n /\ contacts[i].company_id = NoId

\* What C19 says of an update of contact id with data that found the
\* contacts before and left the contacts after at time t.
UpdatedAsSupplied(before, after, id, data, t) ==
  /\ Len(after) = Len(before)
  /\ \A i \in 1..Len(before) :
       IF before[i].id = id
       THEN /\ DOMAIN after[i] = DOMAIN before[i]
            /\ \A f \in UpdateFields :
                 after[i][f] = IF data[f] # Unsupplied(f) THEN data[f] ELSE before[i][f]
            /\ after[i].id = before[i].id
            /\ after[i].created_at = before[i].created_at
            /\ after[i].updated_at = t
       ELSE after[i] = before[i]

\* C19 as claimed: an update of an existing contact gives every supplied field
\* the supplied value, keeps every other field but updated_at, and changes no
\* other contact.
C19_UpdateSetsSuppliedFields ==
  [][out'.op = "updateContact" /\ out'.id \in IdsOf(contacts) =>
       UpdatedAsSupplied(contacts, contacts', out'.id, out'.data, now)]_vars

\* C19: the same for an update that supplies no company or the id of a stored
\* company; an update that supplies any other company_id throws and changes
\* no contact.
C19_UpdateSetsSuppliedFieldsOfValidData ==
  [][out'.op = "updateContact" /\ out'.id \in IdsOf(contacts) =>
       IF out'.data.company_id = NoId \/ out'.data.company_id \in IdsOf(companies)
       THEN UpdatedAsSupplied(contacts, contacts', out'.id, out'.data, now)
       ELSE out'.result = "throws" /\ contacts' = contacts]_vars

\* An update that supplied a first name and a company changed one of two
\* contacts, a second after it was created.
C19_Witness ==
  /\ out.op = "updateContact"
  /\ out.result = "contact"
  /\ out.data.first_name # NULL
  /\ Len(contacts) = 2
  /\ \E i \in 1..Len(contacts) :
       /\ contacts[i].id = out.id
       /\ contacts[i].first_name = out.data.first_name
       /\ contacts[i].company_id = out.data.company_id
       /\ contacts[i].last_name # NULL
       /\ contacts[i].updated_at > contacts[i].created_at

----------------------------------------------------------------------------
(* Interactions, reminders, relationships, groups and group members.       *)

\* The numbers of rows ever inserted into the tables that hang on contacts.
MaxInteractions == 1

MaxReminders == 1

MaxRelationships == 2

MaxGroups == 1

t_call == <<"c", "a", "l", "l">>
t_custom == <<"c", "u", "s", "t", "o", "m">>
t_friend == <<"f", "r", "i", "e", "n", "d">>
t_spouse == <<"s", "p", "o", "u", "s", "e">>
t_team == <<"t", "e", "a", "m">>

\* CHECK(reminder_type IN ('birthday', 'anniversary', 'custom'))
ReminderTypes == {<<"b", "i", "r", "t", "h", "d", "a", "y">>, <<"a", "n", "n", "i", "v", "e", "r", "s", "a", "r", "y">>, t_custom}

\* The same insert with foreign_keys left OFF: no key fails.
foreignKeysOff(tbl, id) == FALSE

\* FOREIGN KEY (...) REFERENCES tbl(id) with foreign_keys = ON: an insert of a
\* key that is no row's id fails.
foreignKeyFails(tbl, id) == \A i \in 1..Len(tbl) : tbl[i].id # id

LinkContacts == { Person(t_bo, NULL, NULL, NULL) }

InteractionInputs ==
  { [contact_id |-> c, interaction_type |-> t_call, summary |-> t_n,
     notes |-> NULL, happened_at |-> NULL] : c \in ContactIdInputs }

ReminderInputs ==
  { [contact_id |-> c, reminder_type |-> t, reminder_date |-> <<"2", "0", "2", "6", "-", "0", "1", "-", "0", "1">>,
     message |-> NULL] : c \in ContactIdInputs, t \in {t_custom, t_call} }

\* Both directions and two types of one pair, a contact with itself, and a
\* contact that cannot exist.
RelationshipInputs ==
  { [contact_id |-> 2, related_contact_id |-> 2, relationship_type |-> t_friend, notes |-> NULL] } \cup
  { [contact_id |-> 1, related_contact_id |-> 2, relationship_type |-> t_friend, notes |-> NULL],
    [contact_id |-> 1, related_contact_id |-> 2, relationship_type |-> t_spouse, notes |-> NULL],
    [contact_id |-> 2, related_contact_id |-> 1, relationship_type |-> t_friend, notes |-> NULL],
    [contact_id |-> 1, related_contact_id |-> MaxCrudContacts + 1,
     relationship_type |-> t_friend, notes |-> NULL] }

GroupInputs == { [name |-> t_team, description |-> NULL] }

InteractionIdInputs == 1..(MaxInteractions + 1)

ReminderIdInputs == 1..(MaxReminders + 1)

RelationshipIdInputs == 1..(MaxRelationships + 1)

GroupIdInputs == 1..(MaxGroups + 1)

CreateLinkContact == CreateContactOf(LinkContacts, MaxCrudContacts)

UpdateLinkContact ==
  UpdateContactOf(ContactIdInputs, {[NoUpdate EXCEPT !.last_name = t_wo]})

\* The row of stmts.updateCompany: data.name ?? existing.name and data.x !==
\* undefined ? data.x : existing.x for the others, updated_at = datetime('now').
updatedCompany(existing, data) ==
  [f \in DOMAIN existing |->
     IF f \in {"name", "website", "industry", "notes"}
     THEN (IF data[f] # NULL THEN data[f] ELSE existing[f])
     ELSE IF f = "updated_at" THEN now
     ELSE existing[f]]

CompanyUpdateInputs ==
  { [name |-> NULL, website |-> NULL, industry |-> NULL, notes |-> t_n] }

\* crmApi.updateCompany(id, data)
UpdateCompany ==
  \E id \in CompanyIdInputs, data \in CompanyUpdateInputs :
    LET existing == rowsWithId(companies, id)
        call     == [op |-> "updateCompany", id |-> id, data |-> data, events |-> <<>>]
    IN IF existing = <<>>
       THEN /\ out' = call @@ [result |-> "null"]
            /\ UNCHANGED <<contacts, companies, contactSeq, companySeq, rest>>
       ELSE /\ companies' = rowsWith(companies, id, updatedCompany(existing[1], data))
            /\ out' = call @@ [result |-> "company"]
            /\ UNCHANGED <<contacts, contactSeq, companySeq, rest>>

\* crmApi.createInteraction(data)
CreateInteraction ==
  \E data \in InteractionInputs :
    /\ seqs.interactions < MaxInteractions
    /\ IF foreignKeyFails(contacts, data.contact_id)
       THEN /\ out' = [op |-> "createInteraction", data |-> data, result |-> "throws",
                       error |-> "FOREIGN KEY constraint failed", events |-> <<>>]
            /\ UNCHANGED <<interactions, seqs, handled>>
       ELSE LET id == seqs.interactions + 1
                happened_at == IF data.happened_at # NULL THEN data.happened_at ELSE now
            IN /\ interactions' = Append(interactions,
                    [id |-> id, contact_id |-> data.contact_id,
                     interaction_type |-> data.interaction_type, summary |-> data.summary,
                     notes |-> data.notes, happened_at |-> happened_at, created_at |-> now])
               /\ seqs' = [seqs EXCEPT !.interactions = id]
               /\ out' = [op |-> "createInteraction", data |-> data, result |-> "interaction",
                          id |-> id, events |-> <<[event |-> "interaction.logged", id |-> id]>>]
               /\ handled' = emitted("interaction.logged")
    /\ UNCHANGED <<contacts, companies, contactSeq, companySeq,
                   reminders, relationships, groups, members, now, version, runs, services>>

\* crmApi.deleteInteraction(id)
DeleteInteraction ==
  \E id \in InteractionIdInputs :
    /\ interactions' = rowsWithout(interactions, id)
    /\ out' = [op |-> "deleteInteraction", id |-> id,
               result |-> (changes(interactions, id) > 0), events |-> <<>>]
    /\ UNCHANGED <<contacts, companies, contactSeq, companySeq,
                   reminders, relationships, groups, members, seqs, now, version, runs, host>>

\* crmApi.createReminder(data)
CreateReminderOf(inputs, max) ==
  \E data \in inputs :
    /\ seqs.reminders < max
    /\ IF data.reminder_type \notin ReminderTypes
       THEN /\ out' = [op |-> "createReminder", data |-> data, result |-> "throws",
                       error |-> "CHECK constraint failed", events |-> <<>>]
            /\ UNCHANGED <<reminders, seqs>>
       ELSE IF foreignKeyFails(contacts, data.contact_id)
       THEN /\ out' = [op |-> "createReminder", data |-> data, result |-> "throws",
                       error |-> "FOREIGN KEY constraint failed", events |-> <<>>]
            /\ UNCHANGED <<reminders, seqs>>
       ELSE LET id == seqs.reminders + 1
            IN /\ reminders' = Append(reminders,
                    [id |-> id, contact_id |-> data.contact_id,
                     reminder_type |-> data.reminder_type,
                     reminder_date |-> data.reminder_date,
                     message |-> data.message, created_at |-> now])
               /\ seqs' = [seqs EXCEPT !.reminders = id]
               /\ out' = [op |-> "createReminder", data |-> data, result |-> "reminder",
                          id |-> id, events |-> <<>>]
    /\ UNCHANGED <<contacts, companies, contactSeq, companySeq,
                   interactions, relationships, groups, members, now, version, runs, host>>

CreateReminder == CreateReminderOf(ReminderInputs, MaxReminders)

\* crmApi.deleteReminder(id)
DeleteReminder ==
  \E id \in ReminderIdInputs :
    /\ reminders' = rowsWithout(reminders, id)
    /\ out' = [op |-> "deleteReminder", id |-> id,
               result |-> (changes(reminders, id) > 0), events |-> <<>>]
    /\ UNCHANGED <<contacts, companies, contactSeq, companySeq,
                   interactions, relationships, groups, members, seqs, now, version, runs, host>>

\* A table of relationships with no UNIQUE constraint.
uniqueTripleNeverTaken(tbl, data) == FALSE

\* UNIQUE(contact_id, related_contact_id, relationship_type)
uniqueTripleTaken(tbl, data) ==
  \E i \in 1..Len(tbl) :
    /\ tbl[i].contact_id = data.contact_id
    /\ tbl[i].related_contact_id = data.related_contact_id
    /\ tbl[i].relationship_type = data.relationship_type

\* crmApi.createRelationship(data)
CreateRelationship ==
  \E data \in RelationshipInputs :
    /\ seqs.relationships < MaxRelationships
    /\ IF uniqueTripleTaken(relationships, data)
       THEN /\ out' = [op |-> "createRelationship", data |-> data, result |-> "throws",
                       error |-> "UNIQUE constraint failed", events |-> <<>>]
            /\ UNCHANGED <<relationships, seqs>>
       ELSE IF \/ foreignKeyFails(contacts, data.contact_id)
               \/ foreignKeyFails(contacts, data.related_contact_id)
       THEN /\ out' = [op |-> "createRelationship", data |-> data, result |-> "throws",
                       error |-> "FOREIGN KEY constraint failed", events |-> <<>>]
            /\ UNCHANGED <<relationships, seqs>>
       ELSE LET id == seqs.relationships + 1
            IN /\ relationships' = Append(relationships,
                    [id |-> id, contact_id |-> data.contact_id,
                     related_contact_id |-> data.related_contact_id,
                     relationship_type |-> data.relationship_type,
                     notes |-> data.notes, created_at |-> now])
               /\ seqs' = [seqs EXCEPT !.relationships = id]
               /\ out' = [op |-> "createRelationship", data |-> data,
                          result |-> "relationship", id |-> id, events |-> <<>>]
    /\ UNCHANGED <<contacts, companies, contactSeq, companySeq,
                   interactions, reminders, groups, members, now, version, runs, host>>

\* crmApi.deleteRelationship(id)
DeleteRelationship ==
  \E id \in RelationshipIdInputs :
    /\ relationships' = rowsWithout(relationships, id)
    /\ out' = [op |-> "deleteRelationship", id |-> id,
               result |-> (changes(relationships, id) > 0), events |-> <<>>]
    /\ UNCHANGED <<contacts, companies, contactSeq, companySeq,
                   interactions, reminders, groups, members, seqs, now, version, runs, host>>

\* crmApi.createGroup(data): name TEXT NOT NULL UNIQUE
CreateGroup ==
  \E data \in GroupInputs :
    /\ seqs.groups < MaxGroups
    /\ IF \E i \in 1..Len(groups) : groups[i].name = data.name
       THEN /\ out' = [op |-> "createGroup", data |-> data, result |-> "throws",
                       error |-> "UNIQUE constraint failed", events |-> <<>>]
            /\ UNCHANGED <<groups, seqs>>
       ELSE LET id == seqs.groups + 1
            IN /\ groups' = Append(groups,
                    [id |-> id, name |-> data.name, description |-> data.description,
                     created_at |-> now])
               /\ seqs' = [seqs EXCEPT !.groups = id]
               /\ out' = [op |-> "createGroup", data |-> data, result |-> "group",
                          id |-> id, events |-> <<>>]
    /\ UNCHANGED <<contacts, companies, contactSeq, companySeq,
                   interactions, reminders, relationships, members, now, version, runs, host>>

\* FOREIGN KEY (group_id) REFERENCES crm_groups(id) ON DELETE CASCADE
onDeleteGroup(tbl, id) ==
  rowsWhere(tbl, {i \in 1..Len(tbl) : tbl[i].group_id # id}, 1)

\* crmApi.deleteGroup(id)
DeleteGroup ==
  \E id \in GroupIdInputs :
    /\ groups' = rowsWithout(groups, id)
    /\ members' = onDeleteGroup(members, id)
    /\ out' = [op |-> "deleteGroup", id |-> id,
               result |-> (changes(groups, id) > 0), events |-> <<>>]
    /\ UNCHANGED <<contacts, companies, contactSeq, companySeq,
                   interactions, reminders, relationships, seqs, now, version, runs, host>>

\* PRIMARY KEY (group_id, contact_id)
isMember(tbl, groupId, contactId) ==
  \E i \in 1..Len(tbl) : tbl[i].group_id = groupId /\ tbl[i].contact_id = contactId

\* A plain INSERT that the primary key does not stop.
insertMemberAgain(tbl, groupId, contactId) ==
  Append(tbl, [group_id |-> groupId, contact_id |-> contactId, added_at |-> now])

\* INSERT OR IGNORE INTO crm_group_members (group_id, contact_id)
insertOrIgnoreMember(tbl, groupId, contactId) ==
  IF isMember(tbl, groupId, contactId) THEN tbl
  ELSE Append(tbl, [group_id |-> groupId, contact_id |-> contactId, added_at |-> now])

\* crmApi.addGroupMember(groupId, contactId): result.changes > 0. OR IGNORE
\* does not cover a foreign key that fails.
AddGroupMember ==
  \E groupId \in GroupIdInputs, contactId \in ContactIdInputs :
    LET call == [op |-> "addGroupMember", group_id |-> groupId,
                 contact_id |-> contactId, events |-> <<>>]
    IN /\ IF /\ ~isMember(members, groupId, contactId)
             /\ \/ foreignKeyFails(groups, groupId)
                \/ foreignKeyFails(contacts, contactId)
          THEN /\ out' = call @@ [result |-> "throws",
                                  error |-> "FOREIGN KEY constraint failed"]
               /\ UNCHANGED members
          ELSE /\ members' = insertOrIgnoreMember(members, groupId, contactId)
               /\ out' = call @@ [result |-> (Len(members') > Len(members))]
       /\ UNCHANGED <<contacts, companies, contactSeq, companySeq,
                      interactions, reminders, relationships, groups, seqs, now, version, runs, host>>

\* crmApi.removeGroupMember(groupId, contactId)
RemoveGroupMember ==
  \E groupId \in GroupIdInputs, contactId \in ContactIdInputs :
    /\ members' = rowsWhere(members,
                    {i \in 1..Len(members) : ~(/\ members[i].group_id = groupId
                                               /\ members[i].contact_id = contactId)}, 1)
    /\ out' = [op |-> "removeGroupMember", group_id |-> groupId, contact_id |-> contactId,
               result |-> isMember(members, groupId, contactId), events |-> <<>>]
    /\ UNCHANGED <<contacts, companies, contactSeq, companySeq,
                   interactions, reminders, relationships, groups, seqs, now, version, runs, host>>

\* Contacts with everything that hangs on them, and their deletion.
NextCascade ==
  \/ CreateLinkContact
  \/ CreateCrudCompany
  \/ CreateInteraction
  \/ CreateReminder
  \/ CreateRelationship
  \/ CreateGroup
  \/ AddGroupMember
  \/ DeleteContact

CascadeSpec == Init /\ [][NextCascade]_vars

\* Groups and their members.
NextGroup ==
  \/ CreateLinkContact
  \/ DeleteContact
  \/ CreateGroup
  \/ DeleteGroup
  \/ AddGroupMember
  \/ RemoveGroupMember

GroupSpec == Init /\ [][NextGroup]_vars

\* Relationships between contacts.
NextRelationship ==
  \/ CreateLinkContact
  \/ DeleteContact
  \/ CreateRelationship
  \/ DeleteRelationship

RelationshipSpec == Init /\ [][NextRelationship]_vars

\* The updates and deletes by id, with the creates of what they address.
NextById ==
  \/ CreateLinkContact
  \/ CreateCrudCompany
  \/ CreateInteraction
  \/ CreateReminder
  \/ CreateRelationship
  \/ CreateGroup
  \/ UpdateLinkContact
  \/ UpdateCompany
  \/ DeleteContact
  \/ DeleteCompany
  \/ DeleteInteraction
  \/ DeleteReminder
  \/ DeleteRelationship
  \/ DeleteGroup

ByIdSpec == Init /\ [][NextById]_vars

----------------------------------------------------------------------------
(* Properties of the rows that hang on contacts.                           *)

\* The rows of a table that hang on other contacts than id.
RowsOfOthers(tbl, id) == SelectSeq(tbl, LAMBDA r : r.contact_id # id)

\* The relationships neither end of which is id.
RelationshipsOfOthers(tbl, id) ==
  SelectSeq(tbl, LAMBDA r : r.contact_id # id /\ r.related_contact_id # id)

\* C15: after deleteContact of an existing contact no interaction, reminder
\* or membership references the contact and no relationship has it at either
\* end; the rows of other contacts, the groups and the companies are as they
\* were.
C15_DeleteContactCascades ==
  [][out'.op = "deleteContact" /\ out'.id \in IdsOf(contacts) =>
       /\ \A i \in 1..Len(interactions') : interactions'[i].contact_id # out'.id
       /\ \A i \in 1..Len(reminders') : reminders'[i].contact_id # out'.id
       /\ \A i \in 1..Len(members') : members'[i].contact_id # out'.id
       /\ \A i \in 1..Len(relationships') :
            /\ relationships'[i].contact_id # out'.id
            /\ relationships'[i].related_contact_id # out'.id
       /\ interactions' = RowsOfOthers(interactions, out'.id)
       /\ reminders' = RowsOfOthers(reminders, out'.id)
       /\ members' = RowsOfOthers(members, out'.id)
       /\ relationships' = RelationshipsOfOthers(relationships, out'.id)
       /\ contacts' = SelectSeq(contacts, LAMBDA r : r.id # out'.id)
       /\ groups' = groups
       /\ companies' = companies]_vars

\* Contact 1 was deleted with its interaction and the relationship it was the
\* related end of; contact 2 keeps its reminder, its membership and its
\* relationship with itself, and the group and the company are stored.
C15_Witness ==
  /\ out.op = "deleteContact" /\ out.result /\ out.id = 1
  /\ seqs.interactions = 1 /\ interactions = <<>>
  /\ seqs.relationships = 2 /\ Len(relationships) = 1
  /\ relationships[1].contact_id = 2 /\ relationships[1].related_contact_id = 2
  /\ Len(reminders) = 1 /\ reminders[1].contact_id = 2
  /\ Len(members) = 1 /\ members[1].contact_id = 2
  /\ Len(groups) = 1
  /\ Len(companies) = 1

\* The number of membership rows of a pair.
RowsOfPair(tbl, groupId, contactId) ==
  Cardinality({i \in 1..Len(tbl) : /\ tbl[i].group_id = groupId
                                   /\ tbl[i].contact_id = contactId})

\* C16: addGroupMember of a pair that is a member leaves one row for the
\* pair, changes nothing and returns false; addGroupMember of a pair of a
\* stored group and a stored contact that is no member returns true and
\* leaves one row for the pair.
C16_AddGroupMemberIdempotent ==
  [][out'.op = "addGroupMember" =>
       LET g == out'.group_id
           c == out'.contact_id
       IN /\ RowsOfPair(members, g, c) > 0 =>
               /\ "error" \notin DOMAIN out'
               /\ out'.result = FALSE
               /\ RowsOfPair(members', g, c) = 1
               /\ UNCHANGED <<contacts, companies, contactSeq, companySeq, rest>>
          /\ (RowsOfPair(members, g, c) = 0 /\ g \in IdsOf(groups) /\ c \in IdsOf(contacts)) =>
               /\ "error" \notin DOMAIN out'
               /\ out'.result = TRUE
               /\ RowsOfPair(members', g, c) = 1]_vars

\* A second addGroupMember of a pair returned false in a group of two members.
C16_Witness ==
  /\ out.op = "addGroupMember"
  /\ "error" \notin DOMAIN out
  /\ out.result = FALSE
  /\ RowsOfPair(members, out.group_id, out.contact_id) = 1
  /\ Len(members) = 2

\* No two relationships have the same contact, related contact and type.
TriplesDiffer ==
  \A i, j \in 1..Len(relationships) :
    (/\ relationships[i].contact_id = relationships[j].contact_id
     /\ relationships[i].related_contact_id = relationships[j].related_contact_id
     /\ relationships[i].relationship_type = relationships[j].relationship_type) => i = j

\* C17: no two relationships ever share contact, related contact and type,
\* and createRelationship of a triple that is stored raises an error and
\* leaves the relationships as they were.
C17_RelationshipTripleUnique ==
  /\ []TriplesDiffer
  /\ [][(/\ out'.op = "createRelationship"
         /\ \E i \in 1..Len(relationships) :
              /\ relationships[i].contact_id = out'.data.contact_id
              /\ relationships[i].related_contact_id = out'.data.related_contact_id
              /\ relationships[i].relationship_type = out'.data.relationship_type) =>
          /\ out'.result = "throws"
          /\ relationships' = relationships
          /\ seqs' = seqs]_vars

\* createRelationship of a stored triple failed on the UNIQUE constraint.
C17_Witness ==
  /\ out.op = "createRelationship"
  /\ out.result = "throws"
  /\ out.error = "UNIQUE constraint failed"
  /\ Len(relationships) = 1
  /\ relationships[1].contact_id = out.data.contact_id
  /\ relationships[1].related_contact_id = out.data.related_contact_id
  /\ relationships[1].relationship_type = out.data.relationship_type

\* The updates and the deletes that take the id of one row.
UpdatesById == {"updateContact", "updateCompany"}

DeletesById ==
  {"deleteContact", "deleteCompany", "deleteInteraction", "deleteReminder",
   "deleteRelationship", "deleteGroup"}

\* The ids stored in the table an operation addresses.
IdsAddressed(op) ==
  CASE op \in {"updateContact", "deleteContact"} -> IdsOf(contacts)
    [] op \in {"updateCompany", "deleteCompany"} -> IdsOf(companies)
    [] op = "deleteInteraction" -> IdsOf(interactions)
    [] op = "deleteReminder" -> IdsOf(reminders)
    [] op = "deleteRelationship" -> IdsOf(relationships)
    [] op = "deleteGroup" -> IdsOf(groups)

\* C18: an update by an id that is not stored returns null and a delete by an
\* id that is not stored returns false; neither raises an error, changes the
\* store or emits an event.
C18_NotFoundIsNullOrFalse ==
  [][(/\ out'.op \in UpdatesById \cup DeletesById
      /\ out'.id \notin IdsAddressed(out'.op)) =>
       /\ "error" \notin DOMAIN out'
       /\ out'.result = (IF out'.op \in UpdatesById THEN "null" ELSE FALSE)
       /\ out'.events = <<>>
       /\ UNCHANGED <<contacts, companies, contactSeq, companySeq, rest>>]_vars

\* deleteRelationship of an id that is not stored returned false with a
\* contact, a company, a group and a relationship stored.
C18_Witness ==
  /\ out.op = "deleteRelationship"
  /\ out.result = FALSE
  /\ out.id \notin IdsOf(relationships)
  /\ Len(relationships) = 1
  /\ Len(contacts) = 2
  /\ Len(companies) = 1
  /\ Len(groups) = 1

----------------------------------------------------------------------------
(* The migrations.                                                         *)

\* The number of calls of initDb on one database file.
MaxRuns == 8

\* A new database file: no version row, no tables.
InitMigration ==
  /\ contacts = <<>>
  /\ companies = <<>>
  /\ contactSeq = 0
  /\ companySeq = 0
  /\ interactions = <<>>
  /\ reminders = <<>>
  /\ relationships = <<>>
  /\ groups = <<>>
  /\ members = <<>>
  /\ seqs = [interactions |-> 0, reminders |-> 0, relationships |-> 0, groups |-> 0]
  /\ now = 0
  /\ version = 0
  /\ runs = <<>>
  /\ stmts = "undefined"
  /\ InitRegistry
  /\ InitWeb
  /\ out = [op |-> "open"]

\* initDb(dbPath): currentVersion = versionRow?.version ?? 0, then the loop,
\* the statements and registerCoreTypes(); fails are the scripts whose db.exec
\* throws in this call.
InitDb ==
  \E fails \in SUBSET (0..(Len(migrations) - 1)) :
    LET currentVersion == version
        done == migrationLoop(currentVersion, version, <<>>, fails)
        core == registerCoreTypes(interactionTypes, 1)
    IN /\ Len(runs) < MaxRuns
       /\ version' = done.version
       /\ runs' = Append(runs, [currentVersion |-> currentVersion,
                                executed |-> done.executed])
       /\ IF done.threw
          THEN /\ out' = [op |-> "initDb", result |-> "throws", error |-> "migration"]
               /\ UNCHANGED <<stmts, interactionTypes>>
          ELSE /\ stmts' = "prepared"
               /\ interactionTypes' = core.interactionTypes
               /\ out' = IF core.threw
                         THEN [op |-> "initDb", result |-> "throws",
                               error |-> "Interaction type is already registered"]
                         ELSE [op |-> "initDb", result |-> "ready"]
       /\ UNCHANGED <<contacts, companies, contactSeq, companySeq,
                      interactions, reminders, relationships, groups, members, seqs, now,
                      eventHandlers, handled, standaloneServer, webServerMounted, requests>>

NextMigration == InitDb

MigrationSpec == InitMigration /\ [][NextMigration]_vars

----------------------------------------------------------------------------
(* Properties of the migrations.                                           *)

\* The executions of scripts of all calls, in order.
RECURSIVE Executed(_)
Executed(rs) == IF rs = <<>> THEN <<>> ELSE Head(rs).executed \o Executed(Tail(rs))

\* The executions that completed.
Completed == SelectSeq(Executed(runs), LAMBDA e : e.ok)

\* C20: the persisted version is the number of completed executions; the
\* scripts complete in index order, each once at most; a call in which a
\* script fails is followed by a call that starts with that script; a call
\* that starts at the version of the last script executes nothing.
C20_VersionCountsCompletedScripts ==
  /\ version = Len(Completed)
  /\ \A k \in 1..Len(Completed) : Completed[k].script = k - 1
  /\ \A r \in 1..Len(runs) :
       LET ex == runs[r].executed
       IN /\ (ex # <<>> /\ ~ex[Len(ex)].ok) =>
               /\ r = Len(runs) => version = ex[Len(ex)].script
               /\ r < Len(runs) =>
                    /\ runs[r + 1].currentVersion = ex[Len(ex)].script
                    /\ runs[r + 1].executed # <<>>
                    /\ runs[r + 1].executed[1].script = ex[Len(ex)].script
          /\ runs[r].currentVersion = Len(migrations) => ex = <<>>

\* The first script failed in the first call and completed in the second, in
\* which the second script failed; the third call completed it and the fourth
\* executed nothing.
C20_Witness ==
  /\ Len(runs) = 4
  /\ runs[1].executed = <<[script |-> 0, ok |-> FALSE]>>
  /\ runs[2].executed = <<[script |-> 0, ok |-> TRUE], [script |-> 1, ok |-> FALSE]>>
  /\ runs[3].executed = <<[script |-> 1, ok |-> TRUE]>>
  /\ runs[4].currentVersion = Len(migrations)
  /\ runs[4].executed = <<>>
  /\ version = Len(migrations)

\* The scripts of the last call of initDb all completed.
LastRunCompleted(rs) ==
  \A k \in 1..Len(rs[Len(rs)].executed) : rs[Len(rs)].executed[k].ok

\* C21: a call of initDb in which no script fails, the first or a later one,
\* returns without throwing and leaves the statements prepared.
C21_InitDbSafeToRepeat ==
  [][(out'.op = "initDb" /\ LastRunCompleted(runs')) =>
       out'.result = "ready" /\ stmts' = "prepared"]_vars

\* The first call of initDb in which no script fails returns and leaves the
\* statements prepared and the core interaction types registered.
C21_FirstInitDbReady ==
  [][(/\ out'.op = "initDb"
      /\ LastRunCompleted(runs')
      /\ interactionTypes = <<>>) =>
       /\ out'.result = "ready"
       /\ stmts' = "prepared"
       /\ interactionTypes' = coreInteractionTypes]_vars

----------------------------------------------------------------------------
(* Event handlers.                                                         *)

\* The number of handlers registered in all.
MaxHandlers == 2

\* The events the mutations emit.
EmittedEvents == {"contact.created", "contact.updated", "contact.deleted", "interaction.logged"}

RegisteredHandlers ==
  Len(eventHandlers["contact.created"]) + Len(eventHandlers["contact.updated"])
    + Len(eventHandlers["contact.deleted"]) + Len(eventHandlers["interaction.logged"])

\* crmRegistry.on(event, handler)
On ==
  \E event \in EmittedEvents, handler \in HandlerKinds \ {"returns"} :
    /\ RegisteredHandlers < MaxHandlers
    /\ eventHandlers' = [eventHandlers EXCEPT ![event] = Append(@, handler)]
    /\ out' = [op |-> "on", event |-> event, handler |-> handler]
    /\ UNCHANGED <<contacts, companies, contactSeq, companySeq, links, handled,
                   stmts, interactionTypes, standaloneServer, webServerMounted, requests>>

NextEvent ==
  \/ On
  \/ CreateLinkContact
  \/ UpdateLinkContact
  \/ DeleteContact
  \/ CreateInteraction

EventSpec == Init /\ [][NextEvent]_vars

----------------------------------------------------------------------------
(* Properties of the event handlers.                                       *)

\* The event a mutation emits.
EventOf(op) ==
  CASE op = "createContact" -> "contact.created"
    [] op = "updateContact" -> "contact.updated"
    [] op = "deleteContact" -> "contact.deleted"
    [] op = "createInteraction" -> "interaction.logged"

\* A handler of the event throws or rejects.
SomeHandlerFails(event) ==
  \E k \in 1..Len(eventHandlers[event]) : eventHandlers[event][k] \in {"throws", "rejects"}

\* C22: a createContact, and an updateContact, deleteContact or
\* createInteraction of a stored contact, with a handler of its event that
\* throws or rejects returns its result with no error, leaves its mutation in
\* the store, and the failure of the handler does not reach its caller.
C22_HandlerFailureNotPropagated ==
  [][(/\ out'.op \in {"createContact", "updateContact", "deleteContact", "createInteraction"}
      /\ SomeHandlerFails(EventOf(out'.op))
      /\ out'.op \in {"updateContact", "deleteContact"} => out'.id \in IdsOf(contacts)
      /\ out'.op = "createInteraction" => out'.data.contact_id \in IdsOf(contacts)) =>
       /\ "error" \notin DOMAIN out'
       /\ handled'.event = EventOf(out'.op)
       /\ ~handled'.propagated
       /\ out'.op = "createContact" =>
            IdsOf(contacts') = IdsOf(contacts) \cup {out'.id} /\ out'.id \notin IdsOf(contacts)
       /\ out'.op = "updateContact" =>
            /\ out'.result = "contact"
            /\ UpdatedAsSupplied(contacts, contacts', out'.id, out'.data, now)
       /\ out'.op = "deleteContact" =>
            out'.result = TRUE /\ IdsOf(contacts') = IdsOf(contacts) \ {out'.id}
       /\ out'.op = "createInteraction" =>
            /\ out'.result = "interaction"
            /\ IdsOf(interactions') = IdsOf(interactions) \cup {out'.id}]_vars

\* A contact was deleted while one handler of contact.deleted threw and
\* another rejected.
C22_Witness ==
  /\ out.op = "deleteContact"
  /\ out.result
  /\ handled.event = "contact.deleted"
  /\ handled.errors # <<>>
  /\ \E k \in 1..Len(eventHandlers["contact.deleted"]) :
       eventHandlers["contact.deleted"][k] = "throws"
  /\ \E k \in 1..Len(eventHandlers["contact.deleted"]) :
       eventHandlers["contact.deleted"][k] = "rejects"

\* C23: when an event is emitted every handler registered for it is invoked,
\* whatever the other handlers do.
C23_EveryHandlerInvoked ==
  [][(out'.op \in {"createContact", "updateContact", "deleteContact", "createInteraction"}
        /\ handled' # handled) =>
       handled'.invoked = [k \in 1..Len(eventHandlers[handled'.event]) |-> k]]_vars

\* When no handler of the event throws, every handler registered for it is
\* invoked, the ones after a rejecting handler too.
C23_EveryHandlerInvokedUnlessOneThrows ==
  [][(/\ out'.op \in {"createContact", "updateContact", "deleteContact", "createInteraction"}
      /\ handled' # handled
      /\ \A k \in 1..Len(eventHandlers[handled'.event]) :
           eventHandlers[handled'.event][k] # "throws") =>
       handled'.invoked = [k \in 1..Len(eventHandlers[handled'.event]) |-> k]]_vars

----------------------------------------------------------------------------
(* Upcoming reminders.                                                     *)

\* No date: the NULL that date() gives for a text that is no date.
NoDate == 0

Digits == {"0", "1", "2", "3", "4", "5", "6", "7", "8", "9"}

\* date(text) for the month the reminders of the model are in: the day of
\* January 2026 that the text YYYY-MM-DD names, NULL for any other text.
date(s) ==
  IF /\ s # NULL
     /\ Len(s) = 10
     /\ SubSeq(s, 1, 8) = <<"2", "0", "2", "6", "-", "0", "1", "-">>
     /\ s[9] \in Digits /\ s[10] \in Digits
  THEN LET d == 10 * (Ord[s[9]] - Ord["0"]) + (Ord[s[10]] - Ord["0"])
       IN IF d >= 1 /\ d <= 31 THEN d ELSE NoDate
  ELSE NoDate

\* The day of the first reading of the clock.
FirstDay == 2

\* date('now'): where reminders are listed the clock counts days.
today == FirstDay + now

\* ORDER BY r.reminder_date
RECURSIVE insertByReminderDate(_, _)
insertByReminderDate(row, sorted) ==
  IF sorted = <<>> THEN <<row>>
  ELSE IF TextLess(row.reminder_date, Head(sorted).reminder_date) THEN <<row>> \o sorted
  ELSE <<Head(sorted)>> \o insertByReminderDate(row, Tail(sorted))

RECURSIVE OrderByReminderDate(_)
OrderByReminderDate(rows) ==
  IF rows = <<>> THEN <<>>
  ELSE insertByReminderDate(rows[Len(rows)],
                            OrderByReminderDate(SubSeq(rows, 1, Len(rows) - 1)))

\* SELECT r.*, c.first_name, c.last_name FROM crm_reminders r JOIN crm_contacts c
joinContact(r) ==
  LET c == rowsWithId(contacts, r.contact_id)[1]
  IN r @@ [first_name |-> c.first_name, last_name |-> c.last_name]

\* WHERE date(r.reminder_date) <= date('now', '+' || ? || ' days')
upcomingWhere(r, days) ==
  date(r.reminder_date) # NoDate /\ date(r.reminder_date) <= today + days

\* crmApi.getUpcomingReminders(days)
getUpcomingReminders(days) ==
  LET keep == {i \in 1..Len(reminders) : /\ rowsWithId(contacts, reminders[i].contact_id) # <<>>
                                         /\ upcomingWhere(reminders[i], days)}
      rows == rowsWhere(reminders, keep, 1)
  IN OrderByReminderDate([i \in 1..Len(rows) |-> joinContact(rows[i])])

\* The number of reminders where they are listed, and the last day.
MaxDatedReminders == 2

MaxDay == 1

DateInputs == {<<"2", "0", "2", "6", "-", "0", "1", "-", "0", "1">>, <<"2", "0", "2", "6", "-", "0", "1", "-", "0", "2">>, <<"2", "0", "2", "6", "-", "0", "1", "-", "0", "3">>, <<"2", "0", "2", "6", "-", "0", "1", "-", "0", "5">>, <<"s", "o", "o", "n">>}

DatedReminders ==
  { [contact_id |-> 1, reminder_type |-> t_custom, reminder_date |-> d, message |-> NULL] :
      d \in DateInputs }

DaysInputs == {0, 1, 7}

ReminderContacts == { Person(t_bo, t_wo, NULL, NULL) }

CreateReminderContact == CreateContactOf(ReminderContacts, 1)

CreateDatedReminder == CreateReminderOf(DatedReminders, MaxDatedReminders)

\* Midnight passes.
NextDay ==
  /\ now < MaxDay
  /\ now' = now + 1
  /\ out' = [op |-> "tick"]
  /\ UNCHANGED <<contacts, companies, contactSeq, companySeq,
                 interactions, reminders, relationships, groups, members, seqs,
                 version, runs, host>>

\* crmApi.getUpcomingReminders(days)
GetUpcomingReminders ==
  \E days \in DaysInputs :
    /\ out' = [op |-> "getUpcomingReminders", days |-> days,
               rows |-> getUpcomingReminders(days)]
    /\ UNCHANGED <<contacts, companies, contactSeq, companySeq, rest>>

NextReminder ==
  \/ CreateReminderContact
  \/ CreateDatedReminder
  \/ NextDay
  \/ GetUpcomingReminders

ReminderSpec == Init /\ [][NextReminder]_vars

----------------------------------------------------------------------------
(* Properties of the upcoming reminders.                                   *)

\* The rows are the reminders that satisfy within, each once, with the names
\* of its contact, in the order of reminder_date.
UpcomingRows(rows, days, Within(_, _)) ==
  /\ {rows[k].id : k \in 1..Len(rows)} =
       {reminders[i].id : i \in {j \in 1..Len(reminders) : Within(reminders[j], days)}}
  /\ \A k, l \in 1..Len(rows) : rows[k].id = rows[l].id => k = l
  /\ \A k \in 1..Len(rows) :
       \E i \in 1..Len(reminders), c \in 1..Len(contacts) :
         /\ reminders[i].id = rows[k].id
         /\ contacts[c].id = reminders[i].contact_id
         /\ rows[k].reminder_date = reminders[i].reminder_date
         /\ rows[k].first_name = contacts[c].first_name
         /\ rows[k].last_name = contacts[c].last_name
  /\ \A k \in 1..(Len(rows) - 1) :
       ~TextLess(rows[k + 1].reminder_date, rows[k].reminder_date)

InNextDays(r, days) ==
  date(r.reminder_date) # NoDate
    /\ date(r.reminder_date) >= today /\ date(r.reminder_date) <= today + days

UpToNextDays(r, days) ==
  date(r.reminder_date) # NoDate /\ date(r.reminder_date) <= today + days

\* C24: getUpcomingReminders(N) returns the reminders dated from today to
\* today + N days, with the names of their contacts, ordered by
\* reminder_date, and none dated before today.
C24_UpcomingWithinNextDays ==
  out.op = "getUpcomingReminders" => UpcomingRows(out.rows, out.days, InNextDays)

\* getUpcomingReminders(N) returns the reminders dated up to today + N days,
\* those of the days before today too.
C24_UpcomingUpToNextDays ==
  out.op = "getUpcomingReminders" => UpcomingRows(out.rows, out.days, UpToNextDays)

\* A reminder of yesterday is returned with one of tomorrow.
C24_PastReminderReturned ==
  /\ out.op = "getUpcomingReminders"
  /\ Len(out.rows) = 2
  /\ date(out.rows[1].reminder_date) < today
  /\ date(out.rows[2].reminder_date) > today

----------------------------------------------------------------------------
(* The crm tool: add_contact.                                              *)

MaxToolContacts == 2

t_b == <<"b">>

\* crmApi.searchCompanies(query, limit): getCompanies(query).slice(0, limit)
searchCompanies(cos, query, limit) == sliceTo(getCompanies(cos, query), limit)

\* The parameters of an add_contact call: a first name, or none, a company
\* name, or none, and a company id, or none.
ToolParams ==
  { [first_name |-> f, last_name |-> NULL, email |-> NULL,
     company_name |-> n, company_id |-> id] :
      f \in {t_al, t_bo, <<>>}, n \in {NULL, t_Ab, t_b}, id \in {NoId, 1, 2} }

\* The add_contact branch of the tool's execute: the call is refused without a
\* first name and when findDuplicates finds a contact; a company_name without
\* a company_id becomes the id of the first company searchCompanies returns or
\* of a company it creates; createContact then stores the contact.
addContact(params) ==
  LET same == [contacts |-> contacts, companies |-> companies,
               contactSeq |-> contactSeq, companySeq |-> companySeq]
  IN
  IF params.first_name = NULL \/ params.first_name = <<>>
  THEN [result |-> "first_name is required"] @@ same
  ELSE IF findDuplicates(contacts, [email |-> params.email,
                                    first_name |-> params.first_name,
                                    last_name |-> params.last_name]) # <<>>
  THEN [result |-> "Possible duplicate(s) found"] @@ same
  ELSE
    LET byName == /\ params.company_name # NULL
                  /\ params.company_name # <<>>
                  /\ params.company_id = NoId
        found  == searchCompanies(companies, params.company_name, 1)
        create == byName /\ Len(found) = 0
        cos    == IF create
                  THEN insertCompany(companies, companySeq,
                         [name |-> params.company_name, website |-> NULL,
                          industry |-> NULL, notes |-> NULL])
                  ELSE companies
        company_id == IF ~byName THEN params.company_id
                      ELSE IF Len(found) > 0 THEN found[1].id
                      ELSE companySeq + 1
        data   == [Person(params.first_name, params.last_name, NULL, params.email)
                     EXCEPT !.company_id = company_id]
    IN IF company_id = NoId \/ company_id \in IdsOf(cos)
       THEN [result |-> "created",
             contacts |-> insertContact(contacts, contactSeq, data),
             companies |-> cos,
             contactSeq |-> contactSeq + 1,
             companySeq |-> IF create THEN companySeq + 1 ELSE companySeq]
       ELSE [result |-> "FOREIGN KEY constraint failed"] @@ same

\* The crm tool called with action "add_contact".
AddContact ==
  \E params \in ToolParams :
    /\ contactSeq < MaxToolContacts
    /\ contacts' = addContact(params).contacts
    /\ companies' = addContact(params).companies
    /\ contactSeq' = addContact(params).contactSeq
    /\ companySeq' = addContact(params).companySeq
    /\ out' = [op |-> "add_contact", params |-> params,
               result |-> addContact(params).result]
    /\ handled' = IF addContact(params).result = "created"
                  THEN emitted("contact.created") ELSE handled
    /\ UNCHANGED <<links, services>>

NextTool ==
  \/ CreateCompany
  \/ AddContact

ToolSpec == Init /\ [][NextTool]_vars

\* The positions of the companies named name.
Named(cos, name) == {i \in 1..Len(cos) : cos[i].name = name}

\* add_contact has created a contact from a company name and no company id.
AddedByCompanyName ==
  /\ out'.op = "add_contact"
  /\ out'.result = "created"
  /\ out'.params.company_name \notin {NULL, <<>>}
  /\ out'.params.company_id = NoId

\* C26 as claimed: add_contact with a company_name N and no company_id links
\* the new contact to a company named N, an existing one when a company is
\* named N and otherwise one it creates.
C26_AddContactLinksCompanyNamed ==
  [][AddedByCompanyName =>
       LET c == contacts'[Len(contacts')]
           N == out'.params.company_name
       IN /\ \E i \in Named(companies', N) : companies'[i].id = c.company_id
          /\ IF Named(companies, N) # {}
             THEN companies' = companies
             ELSE Len(companies') = Len(companies) + 1]_vars

\* What add_contact does: the contact is linked to the first company, by name,
\* that has N in its name, industry or website, and to a new company named N
\* only when there is no such company.
C26_AddContactLinksFirstMatch ==
  [][AddedByCompanyName =>
       LET c == contacts'[Len(contacts')]
           N == out'.params.company_name
           m == {i \in 1..Len(companies) :
                   \/ Like(companies[i].name, Wild(N))
                   \/ Like(companies[i].industry, Wild(N))
                   \/ Like(companies[i].website, Wild(N))}
       IN IF m # {}
          THEN /\ companies' = companies
               /\ \E i \in m : companies[i].id = c.company_id
          ELSE /\ Len(companies') = Len(companies) + 1
               /\ \E i \in Named(companies', N) : companies'[i].id = c.company_id]_vars

\* A contact added with company name "Ab" is linked to the company "Co" of the
\* industry "Ab".
C26_LinkedToOtherCompany ==
  /\ out.op = "add_contact"
  /\ out.result = "created"
  /\ out.params.company_name = t_Ab
  /\ out.params.company_id = NoId
  /\ \E i \in 1..Len(companies) :
       /\ companies[i].id = contacts[Len(contacts)].company_id
       /\ companies[i].name # t_Ab

----------------------------------------------------------------------------
(* The web UI: the /crm-web command, the mount on pi-webserver and the     *)
(* POST of a contact.                                                      *)

MaxRequests == 2

\* The port /crm-web starts the standalone server on when it is given none.
DefaultPort == 4100

\* The value of a decimal digit.
DigitValue(c) ==
  CHOOSE n \in 0..9 : <<"0", "1", "2", "3", "4", "5", "6", "7", "8", "9">>[n + 1] = c

\* parseInt(s) of a text without sign: the number its leading digits spell,
\* as a set of one number, and the empty set for NaN.
RECURSIVE parseIntFrom(_, _, _)
parseIntFrom(s, i, val) ==
  IF i <= Len(s) /\ s[i] \in Digits
  THEN parseIntFrom(s, i + 1, {10 * (IF val = {} THEN 0 ELSE CHOOSE n \in val : TRUE)
                                 + DigitValue(s[i])})
  ELSE val

parseInt(s) == parseIntFrom(trimStart(s), 1, {})

\* parseInt(arg || "4100") || 4100
portOf(arg) ==
  LET p == IF arg = <<>> THEN {DefaultPort} ELSE parseInt(arg)
  IN IF p = {} \/ p = {0} THEN DefaultPort ELSE CHOOSE n \in p : TRUE

\* The lines /crm-web status can show.
MountedLine == "Mounted on pi-webserver at /crm"

NotRunningLine == "CRM web UI is not running"

HintLine == "Use /crm-web [port] to start standalone, or install pi-webserver"

\* closeAllConnections(): a request that came through the standalone server
\* and whose body is still being read loses its connection.
closeAllConnections(reqs) ==
  [i \in 1..Len(reqs) |->
     IF reqs[i].via = "standalone" /\ reqs[i].state = "readBody"
     THEN [reqs[i] EXCEPT !.state = "closed"] ELSE reqs[i]]

\* stopStandaloneServer(): the standalone server and its connections after
\* the call, and whether a server was running.
stopStandaloneServer ==
  IF standaloneServer = 0
  THEN [standaloneServer |-> 0, requests |-> requests, was |-> FALSE]
  ELSE [standaloneServer |-> 0, requests |-> closeAllConnections(requests),
        was |-> TRUE]

\* The arguments given to /crm-web.
CrmWebArgs == {<<>>, <<"s", "t", "a", "t", "u", "s">>, <<"s", "t", "o", "p">>, <<"4", "2">>, <<"x">>, <<" ", "s", "t", "o", "p">>}

\* The handler of the /crm-web command.
CrmWeb ==
  \E args \in CrmWebArgs :
    LET arg == trim(args) IN
    /\ IF arg = <<"s", "t", "a", "t", "u", "s">>
       THEN /\ out' = [op |-> "crm-web", arg |-> arg,
                       lines |-> IF webServerMounted THEN <<MountedLine>>
                                 ELSE <<NotRunningLine, HintLine>>]
            /\ UNCHANGED <<standaloneServer, requests>>
       ELSE IF arg = <<"s", "t", "o", "p">>
       THEN /\ standaloneServer' = stopStandaloneServer.standaloneServer
            /\ requests' = stopStandaloneServer.requests
            /\ out' = [op |-> "crm-web", arg |-> arg,
                       lines |-> IF stopStandaloneServer.was
                                 THEN <<"CRM standalone server stopped">>
                                 ELSE <<"Standalone server is not running">>]
       ELSE IF stopStandaloneServer.was /\ arg = <<>>
       THEN /\ standaloneServer' = 0
            /\ requests' = stopStandaloneServer.requests
            /\ out' = [op |-> "crm-web", arg |-> arg,
                       lines |-> <<"CRM standalone server stopped">>]
       ELSE /\ standaloneServer' = portOf(arg)
            /\ requests' = stopStandaloneServer.requests
            /\ out' = [op |-> "crm-web", arg |-> arg,
                       lines |-> <<"CRM web UI: http://localhost">>
                                 \o IF webServerMounted
                                    THEN <<"(Also available via pi-webserver at /crm)">>
                                    ELSE <<>>]
    /\ UNCHANGED <<contacts, companies, contactSeq, companySeq, links, stmts,
                   interactionTypes, eventHandlers, webServerMounted, handled>>

\* The web:ready event: mountOnWebServer(pi.events).
WebReady ==
  /\ webServerMounted' = TRUE
  /\ out' = [op |-> "web:ready"]
  /\ UNCHANGED <<contacts, companies, contactSeq, companySeq, links, stmts,
                 interactionTypes, eventHandlers, standaloneServer, requests, handled>>

\* The JSON bodies posted to /api/crm/contacts.
PostBodies ==
  { [Person(f, NULL, NULL, NULL) EXCEPT !.company_id = id] @@ [company_name |-> n] :
      f \in {t_al, <<>>}, n \in {NULL, t_Ab, t_b}, id \in {NoId, 1} }

\* The servers a request can come through.
Listening ==
  (IF standaloneServer # 0 THEN {"standalone"} ELSE {})
  \cup (IF webServerMounted THEN {"pi-webserver"} ELSE {})

\* The positions of the requests whose body is being read.
Reading(reqs) == {i \in 1..Len(reqs) : reqs[i].state = "readBody"}

\* handleCrmRequest up to `await readBody(req)`: a POST of a contact arrives
\* and waits for its body. The request keeps, for the properties only, the
\* requests that were waiting and the number of companies when it arrived, and
\* later the id of the company its handler created.
PostContact ==
  \E via \in Listening, body \in PostBodies :
    /\ Len(requests) < MaxRequests
    /\ requests' = Append(requests,
                     [via |-> via, body |-> body, state |-> "readBody",
                      status |-> 0, contact_id |-> NoId, created |-> NoId,
                      waiting |-> Reading(requests), stored |-> Len(companies)])
    /\ out' = [op |-> "POST /api/crm/contacts", request |-> Len(requests) + 1]
    /\ UNCHANGED <<contacts, companies, contactSeq, companySeq, links, stmts,
                   interactionTypes, eventHandlers, standaloneServer,
                   webServerMounted, handled>>

\* Mutant: the lookup sees the companies of the time the request arrived, as
\* it would if it ran before the body is read.
lookupCompaniesOnArrival(req) ==
  getCompanies(SubSeq(companies, 1, req.stored), req.body.company_name)

\* crmApi.getCompanies(body.company_name), run when the body has been read.
lookupCompanies(req) == getCompanies(companies, req.body.company_name)

\* handleCrmRequest after `await readBody(req)`: the rest of the handler runs
\* in one turn; it answers 400 without a first name, finds or creates the
\* company of a company_name without company_id, and creates the contact; an
\* error of the store is answered with 500.
postContact(req) ==
  LET same == [contacts |-> contacts, companies |-> companies,
               contactSeq |-> contactSeq, companySeq |-> companySeq,
               contact_id |-> NoId, created |-> NoId]
      body == req.body
  IN
  IF body.first_name = NULL \/ body.first_name = <<>>
  THEN [status |-> 400] @@ same
  ELSE
    LET byName == /\ body.company_name # NULL
                  /\ body.company_name # <<>>
                  /\ body.company_id = NoId
        found  == lookupCompanies(req)
        create == byName /\ Len(found) = 0
        cos    == IF create
                  THEN insertCompany(companies, companySeq,
                         [name |-> body.company_name, website |-> NULL,
                          industry |-> NULL, notes |-> NULL])
                  ELSE companies
        company_id == IF ~byName THEN body.company_id
                      ELSE IF Len(found) > 0 THEN found[1].id
                      ELSE companySeq + 1
        data   == [Person(body.first_name, NULL, NULL, NULL)
                     EXCEPT !.company_id = company_id]
    IN IF company_id = NoId \/ company_id \in IdsOf(cos)
       THEN [status |-> 201,
             contacts |-> insertContact(contacts, contactSeq, data),
             companies |-> cos,
             contactSeq |-> contactSeq + 1,
             companySeq |-> IF create THEN companySeq + 1 ELSE companySeq,
             contact_id |-> contactSeq + 1,
             created |-> IF create THEN companySeq + 1 ELSE NoId]
       ELSE [status |-> 500] @@ same

\* The body of a waiting request has been read.
ReadBodyEnd ==
  \E i \in Reading(requests) :
    LET r == postContact(requests[i]) IN
    /\ contacts' = r.contacts
    /\ companies' = r.companies
    /\ contactSeq' = r.contactSeq
    /\ companySeq' = r.companySeq
    /\ requests' = [requests EXCEPT ![i].state = "done", ![i].status = r.status,
                                    ![i].contact_id = r.contact_id,
                                    ![i].created = r.created]
    /\ out' = [op |-> "readBody", request |-> i, status |-> r.status]
    /\ handled' = IF r.status = 201 THEN emitted("contact.created") ELSE handled
    /\ UNCHANGED <<links, stmts, interactionTypes, eventHandlers, standaloneServer,
                   webServerMounted>>

\* The companies stored before any request arrives.
CreateStoredCompany ==
  /\ requests = <<>>
  /\ CreateCompany

NextWeb ==
  \/ CrmWeb
  \/ WebReady
  \/ CreateStoredCompany
  \/ PostContact
  \/ ReadBodyEnd

WebSpec == Init /\ [][NextWeb]_vars

StatusShown == out.op = "crm-web" /\ out.arg = <<"s", "t", "a", "t", "u", "s">>

\* The status shows a line other than the mounted, not running and hint
\* lines: the only lines that do not say the CRM is running standalone.
ReportsStandalone(lines) ==
  \E i \in 1..Len(lines) : lines[i] \notin {MountedLine, NotRunningLine, HintLine}

\* C25 as claimed: /crm-web status reports the CRM as running standalone
\* exactly when a standalone server has been started and not stopped, as
\* mounted exactly when it is mounted on pi-webserver, and as not running only
\* when neither holds.
C25_StatusReportsStandaloneAndMount ==
  StatusShown =>
    /\ ReportsStandalone(out.lines) <=> standaloneServer # 0
    /\ MountedLine \in SeqToSet(out.lines) <=> webServerMounted
    /\ NotRunningLine \in SeqToSet(out.lines) =>
         standaloneServer = 0 /\ ~webServerMounted

\* What the status does: it reports the mount exactly when the CRM is mounted
\* and "not running" exactly when it is not, whatever the standalone server.
C25_StatusReportsMountOnly ==
  StatusShown =>
    /\ ~ReportsStandalone(out.lines)
    /\ MountedLine \in SeqToSet(out.lines) <=> webServerMounted
    /\ NotRunningLine \in SeqToSet(out.lines) <=> ~webServerMounted

\* The status says "not running" while the standalone server is running.
C25_NotRunningWhileStandalone ==
  /\ StatusShown
  /\ standaloneServer # 0
  /\ NotRunningLine \in SeqToSet(out.lines)

\* Requests i and j, j the later one, were waiting for their bodies at the
\* same time, carried the company name N and no company id, and both have
\* been answered with the contact they created.
PostedTogether(i, j, N) ==
  /\ i < j
  /\ i \in requests[j].waiting
  /\ requests[i].state = "done" /\ requests[j].state = "done"
  /\ requests[i].status = 201 /\ requests[j].status = 201
  /\ requests[i].body.company_name = N /\ requests[j].body.company_name = N
  /\ N # NULL /\ N # <<>>
  /\ requests[i].body.company_id = NoId /\ requests[j].body.company_id = NoId

\* The company of the contact a request created.
CompanyOfPosted(i) ==
  LET c == CHOOSE k \in 1..Len(contacts) : contacts[k].id = requests[i].contact_id
  IN contacts[c].company_id

\* The companies that the handlers of requests i and j created.
CreatedBy(i, j) ==
  {k \in 1..Len(companies) :
     companies[k].id \in {requests[i].created, requests[j].created} \ {NoId}}

\* N matches no company but those that requests i and j created.
MatchesNoOther(i, j, N) ==
  \A k \in 1..Len(companies) :
    (\/ Like(companies[k].name, Wild(N))
     \/ Like(companies[k].industry, Wild(N))
     \/ Like(companies[k].website, Wild(N))) => k \in CreatedBy(i, j)

\* C27: two POSTs of a contact that wait for their bodies at the same time
\* with the same company_name, which matches no company but what they create,
\* create exactly one company between them, named as they ask, and both new
\* contacts reference it, in whatever order the bodies arrive.
C27_ConcurrentPostsCreateOneCompany ==
  \A i, j \in 1..Len(requests) : \A N \in {t_Ab, t_b} :
    PostedTogether(i, j, N) /\ MatchesNoOther(i, j, N)
    => /\ Cardinality(CreatedBy(i, j)) = 1
       /\ \A k \in CreatedBy(i, j) :
            /\ companies[k].name = N
            /\ CompanyOfPosted(i) = companies[k].id
            /\ CompanyOfPosted(j) = companies[k].id

\* Two such requests have been answered, the later one first, with another
\* company stored.
C27_Witness ==
  \E i, j \in 1..Len(requests) : \E N \in {t_Ab, t_b} :
    /\ PostedTogether(i, j, N)
    /\ MatchesNoOther(i, j, N)
    /\ requests[j].contact_id < requests[i].contact_id
    /\ Len(companies) = 2

----------------------------------------------------------------------------
(* The flat substring stage of the search.                                 *)

\* The flat stage, step 3 of searchContactsSmart, ran.
FlatRan == Searched /\ 3 \in SeqToSet(out.ran)

\* What the flat stage returned: the result of the search when the stage was
\* the last to run, and nothing when the search went on to the fuzzy stage.
FlatRows == IF out.ran[Len(out.ran)] = 3 THEN out.rows ELSE <<>>

\* The contacts in which the trimmed query occurs, letter case aside, in one of
\* the six text columns, by first_name then last_name, at most limit of them.
ContactsWithQuery ==
  SelectContacts({i \in 1..Len(contacts) : QueryOccurs(contacts[i])}, out.limit)

\* C28 as claimed: the flat stage returns exactly the contacts in which the
\* whole trimmed query occurs as a substring, letter case aside, of first_name,
\* last_name, nickname, email, phone or tags, ordered by first_name then
\* last_name, at most limit of them.
C28_FlatStageReturnsSubstringMatches ==
  FlatRan => FlatRows = ContactsWithQuery

\* The same for a query without the characters % and _, which LIKE reads as
\* wildcards.
C28_FlatStageOfPlainQuery ==
  FlatRan /\ ~includes(out.query, "%") /\ ~includes(out.query, "_")
    => FlatRows = ContactsWithQuery

\* The flat stage returns a contact in which the query does not occur.
C28_ReturnedWithoutOccurrence ==
  /\ FlatRan
  /\ \E i \in 1..Len(contacts) :
       InRows(contacts[i], FlatRows) /\ ~QueryOccurs(contacts[i])

\* The flat stage of a plain query returned one of two stored contacts.
C28_PlainQueryWitness ==
  /\ FlatRan /\ ~includes(out.query, "%") /\ ~includes(out.query, "_")
  /\ Len(contacts) = 2
  /\ Len(FlatRows) = 1
  /\ out.limit = DefaultSearchLimit

----------------------------------------------------------------------------
(* Referential integrity.                                                  *)

\* updateContact called to give a contact a company, stored or not.
UpdateContactCompany ==
  UpdateContactOf(ContactIdInputs, {[NoUpdate EXCEPT !.company_id = 1],
                                    [NoUpdate EXCEPT !.company_id = MaxCompanies + 1]})

\* Every operation that inserts, updates or deletes a row with a reference
\* or a referenced row.
NextIntegrity ==
  \/ CreateCrudContact
  \/ CreateCrudCompany
  \/ CreateInteraction
  \/ CreateReminder
  \/ CreateRelationship
  \/ CreateGroup
  \/ AddGroupMember
  \/ UpdateContactCompany
  \/ DeleteContact
  \/ DeleteCompany
  \/ DeleteGroup

IntegritySpec == Init /\ [][NextIntegrity]_vars

\* Every row that references a contact, a group or a company references a
\* stored one.
ReferencesExist ==
  /\ \A i \in 1..Len(interactions) : interactions[i].contact_id \in IdsOf(contacts)
  /\ \A i \in 1..Len(reminders) : reminders[i].contact_id \in IdsOf(contacts)
  /\ \A i \in 1..Len(relationships) :
       /\ relationships[i].contact_id \in IdsOf(contacts)
       /\ relationships[i].related_contact_id \in IdsOf(contacts)
  /\ \A i \in 1..Len(members) :
       /\ members[i].contact_id \in IdsOf(contacts)
       /\ members[i].group_id \in IdsOf(groups)
  /\ \A i \in 1..Len(contacts) :
       contacts[i].company_id = NoId \/ contacts[i].company_id \in IdsOf(companies)

CreateOps ==
  {"createContact", "createInteraction", "createReminder", "createRelationship",
   "createGroup", "addGroupMember"}

\* The create call of the step names a contact or a group that is not stored.
ReferenceMissing ==
  \/ /\ out'.op \in {"createInteraction", "createReminder"}
     /\ out'.data.contact_id \notin IdsOf(contacts)
  \/ /\ out'.op = "createRelationship"
     /\ \/ out'.data.contact_id \notin IdsOf(contacts)
        \/ out'.data.related_contact_id \notin IdsOf(contacts)
  \/ /\ out'.op = "addGroupMember"
     /\ \/ out'.contact_id \notin IdsOf(contacts)
        \/ out'.group_id \notin IdsOf(groups)

\* C29: in every reachable state every interaction, reminder and membership
\* references a stored contact, every relationship stored contacts at both
\* ends, every membership a stored group, and every contact no company or a
\* stored one; a create call that names a missing contact or group raises an
\* error, and a create call that raises an error leaves the store unchanged.
C29_ReferentialIntegrity ==
  /\ []ReferencesExist
  /\ [][/\ ReferenceMissing => "error" \in DOMAIN out'
        /\ out'.op \in CreateOps /\ "error" \in DOMAIN out' =>
             UNCHANGED <<contacts, companies, contactSeq, companySeq, interactions,
                         reminders, relationships, groups, members, seqs>>]_vars

\* A membership of a missing contact has been refused while a contact with a
\* company, a group and a membership are stored.
C29_Witness ==
  /\ out.op = "addGroupMember"
  /\ "error" \in DOMAIN out
  /\ out.contact_id \notin IdsOf(contacts)
  /\ out.group_id \in IdsOf(groups)
  /\ members # <<>>
  /\ \E i \in 1..Len(contacts) : contacts[i].company_id # NoId

----------------------------------------------------------------------------
(* The counts of an import.                                                *)

\* C30: an import of a CSV that passes the header checks counts every data
\* row that is not blank as created or skipped, counts as skipped the rows it
\* lists in duplicates and the rows it lists in errors, and adds exactly
\* `created` contacts to the store.
C30_ImportCountsAddUp ==
  [][out'.op = "importContactsCsv" /\ ~HeaderChecksFail(out'.csv) =>
       /\ out'.result.created + out'.result.skipped = Cardinality(DataRows(out'.csv))
       /\ out'.result.skipped
            = Len(out'.result.duplicates) + Len(out'.result.errors)
       /\ Len(contacts') = Len(contacts) + out'.result.created]_vars

\* An import of a CSV with a blank line between its rows has created a
\* contact and skipped a row.
C30_Witness ==
  /\ Imported
  /\ ~HeaderChecksFail(out.csv)
  /\ Cardinality(DataRows(out.csv)) < Len(parseCsvLines(out.csv)) - 1
  /\ out.result.created = 1
  /\ out.result.skipped = 1

====
